---- MODULE Spec2Model ----
(***************************************************************************)
(* Model of trambar-cli, the command-line installer/manager of a Trambar   *)
(* server.  Four generations of the script are modelled side by side:      *)
(*   "index"  src/bin/index.js                                             *)
(*   "p1"     src/unnamed/part_001                                         *)
(*   "p4"     src/unnamed/part_004 (lines 1-885)                           *)
(*   "p2"     src/unnamed/part_002 (lines 1-1363)                          *)
(* One invocation of the program (one process, from argument parsing to    *)
(* process.exit) is one action.  The machine the program runs on (files of *)
(* the configuration folder in use, installed tools, local Docker images, running *)
(* containers) is the state that outlives an invocation.  What the outside *)
(* world decides during an invocation (exit statuses of external programs, *)
(* the user's answers) is drawn with \E from small sets.                   *)
(***************************************************************************)
EXTENDS Integers, Sequences, FiniteSets, TLC

VARIABLES
    script,           \* which generation of the script is installed
    os,               \* OS.type() of the machine
    dev,              \* the script is always given --dev (part_002)
    files,            \* configuration folder: file name -> [content, mode]
    dockerInstalled,  \* `docker --version` succeeds
    composeInstalled, \* `docker-compose --version` succeeds
    images,           \* local Docker images: set of [ID, Repository, Tag]
    containers,       \* running containers: set of [Names, Image]
    registry,         \* certbot.json of the configuration folder
    certTime,         \* newest modification time under /etc/letsencrypt,
                      \* 0 when the folder does not exist
    runs,             \* invocations so far
    last              \* the invocation that has just ended, or NoProc

vars == <<script, os, dev, files, dockerInstalled, composeInstalled, images,
          containers, registry, certTime, runs, last>>

world == <<script, os, dev, files, dockerInstalled, composeInstalled, images,
           containers, registry, certTime>>

-----------------------------------------------------------------------------
(* Bounds *)

\* number of distinct renderings a generated file cycles through
MaxGen == 2
\* image IDs available to the Docker daemon
MaxImageID == 3
\* largest modification time of a certificate file
MaxCertTime == 2
\* invocations of the script in one behaviour
MaxRuns == 2

-----------------------------------------------------------------------------
(* Small helpers *)

RECURSIVE SeqToSet(_)
SeqToSet(s) == IF s = <<>> THEN {} ELSE {Head(s)} \cup SeqToSet(Tail(s))

Max(S) == CHOOSE x \in S : \A y \in S : y <= x

RECURSIVE SortDesc(_)
\* the elements of a finite set of integers, largest first
SortDesc(S) == IF S = {} THEN <<>> ELSE <<Max(S)>> \o SortDesc(S \ {Max(S)})

-----------------------------------------------------------------------------
(* Program constants *)

Scripts == {"index", "p1", "p4", "p2"}

defaultPrefix == "trambar"
defaultPassword == "password"

\* permission modes, in octal in the source
Mode0600 == 384
Mode0644 == 420
Mode0666 == 438

\* exit statuses: process.exit(-1) is seen by the shell as 255
ExitOK == 0
ExitFail == (-1) % 256
ExitUncaught == 1
\* the shell's status of a process ended by SIGINT
ExitInterrupted == 128 + 2

-----------------------------------------------------------------------------
(* The machine *)

ComposeYml == "docker-compose.yml"
EnvFile == ".env"
PasswdFile == "trambar.htpasswd"
\* one further generated file per script generation
SslConf == "default/ssl.conf"
SnakeoilCrt == "certs/snakeoil.crt"
NginxYml == "nginx.yml"

FileNames == {ComposeYml, EnvFile, PasswdFile, SslConf, SnakeoilCrt, NginxYml}

\* a file that does not exist
NoFile == [content |-> <<>>, mode |-> 0]

\* repository names are sequences of path segments: trambar/node is
\* <<"trambar", "node">>, postgres is <<"postgres">>
TrambarNode == <<"trambar", "node">>
Postgres == <<"postgres">>
NoneTag == "<none>"

\* an image that has nothing to do with Trambar and is always present
ForeignImage == [ID |-> 0, Repository |-> Postgres, Tag |-> "latest"]
\* a container that has nothing to do with Trambar and is always running
ForeignContainer == [Names |-> <<"db", "postgres", "1">>, Image |-> Postgres]

\* the containers `docker-compose -p prefix up -d` creates
Deployment(prefix) ==
    {[Names |-> <<prefix, "node", "1">>, Image |-> TrambarNode],
     [Names |-> <<prefix, "nginx", "1">>, Image |-> <<"trambar", "nginx">>]}

NoProc == [cmd |-> "none"]

\* certbot.json does not exist
NoRegistry ==
    [exists |-> FALSE, domains |-> <<>>, email |-> <<>>, notification |-> FALSE]

\* text is a sequence of pieces; what the program looks into (blanks, the
\* first letter of an answer, the first four characters of a hash) is a
\* piece of its own
AnsY == <<"y">>
AnsN == <<"n">>
AnsEnter == <<>>
\* the user presses Ctrl-C instead of typing a line
CtrlC == <<"^C">>
\* the value of a parameter that was not passed
Undefined == <<"<undefined>">>

\* the part of the machine a handler works on, with the trace of what the
\* invocation did so far
Context ==
    [files |-> files, dockerInstalled |-> dockerInstalled,
     composeInstalled |-> composeInstalled, images |-> images,
     containers |-> containers, registry |-> registry,
     certTime |-> certTime, log |-> <<>>]

Log(c, e) == [c EXCEPT !.log = Append(@, e)]

\* what is decided outside the program during one invocation
DefaultIn ==
    [yes |-> FALSE,        \* --yes
     prefix |-> "",        \* --prefix, "" when not given
     config |-> "",        \* --config, "" when not given
     dev |-> FALSE,        \* --dev
     help |-> FALSE,       \* --help
     version |-> FALSE,    \* --version
     caps |-> {},          \* the letters of the command typed as capitals
     root |-> TRUE,        \* IsRoot()
     access |-> TRUE,      \* the Docker daemon answers this user
     fails |-> {},         \* external programs that end with non-zero status
     rmiFail |-> {},       \* images `docker rmi` refuses to remove
     newer |-> FALSE,      \* the registry holds a newer trambar image
     keepRepo |-> TRUE,    \* a superseded image keeps its repository name
     pkgs |-> {},          \* package managers installed
     confirmDocker |-> <<AnsY>>,   \* the lines typed at each question
     confirmCompose |-> <<AnsY>>,
     overwrite |-> [f \in FileNames |-> <<AnsEnter>>],
     password |-> <<AnsEnter>>,
     ssl |-> <<AnsEnter>>,         \* answer to 'Set up SSL?'
     useCertbot |-> <<AnsEnter>>,  \* answer to 'Use certbot?'
     useSnakeoil |-> <<AnsEnter>>, \* answer to 'Use self-signed SSL certificate?'
     public |-> FALSE,             \* isPublicServer()
     domains |-> <<>>,             \* names typed at 'Server domain names:'
     email |-> <<"me@a.org">>,     \* line typed at 'Contact e-mail:'
     cron |-> <<AnsEnter>>,        \* answer to 'Add crontab?'
     args |-> <<>>,                \* words after the command
     notify |-> <<AnsEnter>>,      \* answer to 'Receive notification e-mails?'
     gitlab |-> <<AnsEnter>>,      \* answer to 'Install GitLab?'
     gitlabDomains |-> <<>>,
     wordpress |-> <<AnsEnter>>,   \* answer to 'Install WordPress?'
     wordpressDomains |-> <<>>,
     acquire |-> <<AnsEnter>>,     \* answer to 'Acquire SSL certificate now?'
     renewed |-> FALSE,            \* certbot renew replaces a certificate
     live |-> FALSE,               \* /etc/letsencrypt/live has an entry
     listening |-> {},             \* ports of netstat's LISTEN lines
     httpsPort |-> <<AnsEnter>>,   \* lines typed at 'HTTPS port:'
     httpPort |-> <<AnsEnter>>,    \* lines typed at 'HTTP port:'
     cert |-> "ok"]               \* where the user's own certificate files are:
                                  \* "ok", "root" (a root level folder), "none"

-----------------------------------------------------------------------------
(* Options and the configuration folder *)

\* a prefix the user may pass with --prefix, besides the default
AltPrefix == "alt"
\* a folder the user may pass with --config: it exists, holds none of the
\* generated files, and no modelled invocation writes to it
EmptyFolder == "/srv/empty"

\* var prefix = options.prefix || defaultPrefix; getContainerPrefix of
\* part_002 puts 'dev' in between when options.dev is set
prefixOf(in) ==
    IF in.prefix # "" THEN in.prefix
    ELSE IF in.dev THEN "dev" ELSE defaultPrefix

\* the files of the folder named by options.config || defaultConfigFolder
\* (with --dev the default is defaultConfigFolder + '/dev': on a machine
\* where the script is always given --dev, `files` is that folder)
ConfigFiles(c, in) ==
    IF in.config = "" THEN c.files ELSE [f \in FileNames |-> NoFile]

\* the folder exists: the default folder is created by mkdirp when the first
\* file is written and removed by rmdir after the last one is deleted
FolderExists(c, in) ==
    \/ in.config # ""
    \/ \E f \in FileNames : c.files[f] # NoFile
    \/ c.registry.exists

-----------------------------------------------------------------------------
(* JavaScript values of the handlers' results *)

\* An operation of the script is modelled as a record [ret, c]: what the
\* JavaScript function returns ("true", "false", "undefined"), or how it ends
\* otherwise ("throw": an exception nobody caught yet, "exit": process.exit(-1)
\* inside a helper, "hang": it waits for input that never comes, "killed":
\* the user interrupts it at a prompt), and the machine it leaves behind.

Bool(b) == IF b THEN "true" ELSE "false"

Return(v, c) == [ret |-> v, c |-> c]

Abrupt == {"throw", "exit", "hang", "killed"}

\* the caller's `if (!f()) return false`, an uncaught exception passing through
Fail(r) == [ret |-> IF r.ret \in Abrupt THEN r.ret ELSE "false", c |-> r.c]

\* if (!r) { return false; } K
Then(r, K(_)) == IF r.ret # "true" THEN Fail(r) ELSE K(r.c)

\* r; K   the value of r is not looked at
Do(r, K(_)) == IF r.ret \in Abrupt THEN r ELSE K(r.c)

\* var v = r; K
With(r, K(_)) == K(r)

-----------------------------------------------------------------------------
(* External programs *)

\* the program can be started and talks to what it needs
ToolWorks(c, in, tool) ==
    CASE tool = "docker" -> c.dockerInstalled /\ in.access
      [] tool = "docker-compose" -> c.composeInstalled
      [] tool \in {"apt-get", "pacman", "yum", "urpmi"} -> tool \in in.pkgs
      [] OTHER -> TRUE

\* run: execFileSync / execSync throw when the program ends with a status
\* other than 0, and run returns false.  docker-compose reads
\* docker-compose.yml in the working directory and talks to the Docker daemon
run(c, in, tool, cmd) ==
    LET ok == /\ ToolWorks(c, in, tool)
              /\ cmd \notin in.fails
              /\ tool = "docker-compose" =>
                    /\ ConfigFiles(c, in)[ComposeYml] # NoFile
                    /\ ToolWorks(c, in, "docker")
    IN  Return(Bool(ok), Log(c, <<"run", cmd, IF ok THEN "ok" ELSE "fail">>))

\* `program --version` needs the program, not the Docker daemon
isInstalled(c, in, program) ==
    Return(Bool(ToolWorks(c, [in EXCEPT !.access = TRUE], program)),
           Log(c, <<"exec", program, "--version">>))

\* a script that lets every user in
anyUser(s, c, in) == Return("true", c)

\* if (!IsRoot()) { console.log('Root access required'); return false };
\* part_004 and part_002 ask for root on Linux only
checkRootAccess(s, c, in) ==
    IF s \in {"p4", "p2"} /\ os # "Linux"
    THEN Return("true", c)
    ELSE IF ~in.root
         THEN Return("false", Log(c, <<"print", "Root access required">>))
         ELSE Return("true", c)

checkDockerAccess(c, in) ==
    IF ToolWorks(c, in, "docker")
    THEN Return("true", Log(c, <<"exec", "docker", "ps">>))
    ELSE With(isInstalled(Log(c, <<"exec", "docker", "ps">>), in, "docker"),
              LAMBDA r :
              Return("false",
                     Log(r.c, <<"print",
                                IF r.ret = "true" THEN "Root access required"
                                ELSE "Docker is not installed">>)))

checkFileExistence(c, in, name) ==
    IF ConfigFiles(c, in)[name] = NoFile
    THEN Return("false", Log(c, <<"print", "File not found", name>>))
    ELSE Return("true", c)

checkConfiguration(c, in) ==
    Then(checkFileExistence(c, in, ComposeYml), LAMBDA c1 :
    Then(checkFileExistence(c1, in, EnvFile), LAMBDA c2 :
    Return("true", c2)))

\* /^trambar\// tested on a repository or image name
IsTrambar(name) == Len(name) >= 2 /\ name[1] = "trambar"

\* getProcesses of part_002: new RegExp('^' + prefix + '_') tested on Names
getProcesses_p2(c, in) ==
    IF ~ToolWorks(c, in, "docker")
    THEN [list |-> {}, c |-> Log(c, <<"exec", "docker", "ps", "fail">>)]
    ELSE [list |-> {p \in c.containers : p.Names[1] = prefixOf(in)},
          c |-> Log(c, <<"exec", "docker", "ps", "ok">>)]

\* getProcesses of index.js, part_001 and part_004: /^trambar\// tested on
\* Image.  A listing that fails gives the empty list
getProcesses(s, c, in) ==
    IF s = "p2" THEN getProcesses_p2(c, in)
    ELSE IF ~ToolWorks(c, in, "docker")
         THEN [list |-> {}, c |-> Log(c, <<"exec", "docker", "ps", "fail">>)]
         ELSE [list |-> {p \in c.containers : IsTrambar(p.Image)},
               c |-> Log(c, <<"exec", "docker", "ps", "ok">>)]

\* a script that takes Trambar to be running
takenAsRunning(s, c, in) == Return("true", c)

\* return !_.isEmpty(getProcesses())
isRunning(s, c, in) ==
    With(getProcesses(s, c, in), LAMBDA r : Return(Bool(r.list # {}), r.c))

\* process.chdir(configFolder) throws when the folder does not exist
chdir(c, in) ==
    IF FolderExists(c, in) THEN Return("true", c)
    ELSE Return("throw", Log(c, <<"throw", "chdir">>))

\* process.chdir(configFolder); return run('docker-compose', [..., what])
dockerCompose(c, in, what) ==
    Then(chdir(c, in), LAMBDA c1 : run(c1, in, "docker-compose", what))

createContainers(c, in) ==
    Then(dockerCompose(c, in, "docker-compose up"), LAMBDA c1 :
    Return("true", [c1 EXCEPT !.containers = @ \cup Deployment(prefixOf(in))]))

destroyContainers(c, in) ==
    Then(dockerCompose(c, in, "docker-compose down"), LAMBDA c1 :
    Return("true", [c1 EXCEPT !.containers = @ \ Deployment(prefixOf(in))]))

restartContainers(c, in) == dockerCompose(c, in, "docker-compose restart")

editTextFile(c, in, path) == run(c, in, "editor", "editor")

-----------------------------------------------------------------------------
(* Command handlers that neither write files nor touch images *)

\* the function ends without a return statement
editCompose(s, c, in) ==
    Then(checkRootAccess(s, c, in), LAMBDA c1 :
    Do(editTextFile(c1, in, ComposeYml), LAMBDA c2 :
    Return("undefined", c2)))

editEnv(s, c, in) ==
    Then(checkRootAccess(s, c, in), LAMBDA c1 :
    Do(editTextFile(c1, in, EnvFile), LAMBDA c2 :
    Return("undefined", c2)))

start(s, c, in) ==
    Then(checkDockerAccess(c, in), LAMBDA c1 :
    Then(checkConfiguration(c1, in), LAMBDA c2 :
    Then(createContainers(c2, in), LAMBDA c3 :
    Return("true", c3))))

\* if (!isRunning()) { console.log(...); return false; }
mustBeRunning(s, c, in) ==
    With(isRunning(s, c, in), LAMBDA r :
    IF r.ret = "true" THEN r
    ELSE Return("false",
                Log(r.c, <<"print", "Trambar is not currently running">>)))

\* the status of `docker stats` is not looked at
showStats(s, c, in) ==
    Then(checkDockerAccess(c, in), LAMBDA c1 :
    Then(mustBeRunning(s, c1, in), LAMBDA c2 :
    Do(run(c2, in, "docker", "docker stats"), LAMBDA c3 :
    Return("true", c3))))

\* part_002 names a variable `prefix` that no scope declares: building the
\* argument list throws a ReferenceError
showLogs(s, c, in) ==
    Then(checkDockerAccess(c, in), LAMBDA c1 :
    Then(mustBeRunning(s, c1, in), LAMBDA c2 :
    Then(chdir(c2, in), LAMBDA c3 :
    IF s = "p2"
    THEN Return("throw", Log(c3, <<"throw", "ReferenceError">>))
    ELSE run(c3, in, "docker-compose", "docker-compose logs"))))

stop(s, c, in) ==
    Then(checkDockerAccess(c, in), LAMBDA c1 :
    Then(checkConfiguration(c1, in), LAMBDA c2 :
    Then(mustBeRunning(s, c2, in), LAMBDA c3 :
    Then(destroyContainers(c3, in), LAMBDA c4 :
    Return("true", c4)))))

restart(s, c, in) ==
    Then(checkDockerAccess(c, in), LAMBDA c1 :
    Then(checkConfiguration(c1, in), LAMBDA c2 :
    Then(mustBeRunning(s, c2, in), LAMBDA c3 :
    Then(restartContainers(c3, in), LAMBDA c4 :
    Return("true", c4)))))

-----------------------------------------------------------------------------
(* Interactive prompt helpers *)

RECURSIVE trimStart(_)
trimStart(t) == IF t # <<>> /\ Head(t) = " " THEN trimStart(Tail(t)) ELSE t

RECURSIVE trimEnd(_)
trimEnd(t) ==
    IF t # <<>> /\ t[Len(t)] = " " THEN trimEnd(SubSeq(t, 1, Len(t) - 1)) ELSE t

\* _.trim
trim(t) == trimEnd(trimStart(t))

\* the do ... while (confirmed === undefined) loop of confirm; each round
\* reads one line.  "hang": the program waits for a line nobody types;
\* "killed": Ctrl-C at the prompt ends the process
RECURSIVE confirmLoop(_, _, _, _)
confirmLoop(c, question, def, answers) ==
    IF answers = <<>> THEN Return("hang", c)
    ELSE IF Head(answers) = CtrlC
    THEN Return("killed", Log(c, <<"ask", question>>))
    ELSE LET answer == trim(Head(answers))
             c1 == Log(c, <<"ask", question>>)
             confirmed ==
                 IF answer = <<>> THEN def
                 ELSE IF answer[1] \in {"y", "Y"} THEN "true"
                 ELSE IF answer[1] \in {"n", "N"} THEN "false"
                 ELSE "undefined"
         IN  IF confirmed = "undefined"
             THEN confirmLoop(c1, question, def, Tail(answers))
             ELSE Return(confirmed, c1)

\* confirm of part_004 and part_002: with --yes the answer is yes
confirm_p4(c, in, question, def, answers) ==
    IF in.yes THEN Return("true", Log(c, <<"print", question>>))
    ELSE confirmLoop(c, question, def, answers)

\* a confirm that hands back its default when --yes is given
confirmDefault(s, c, in, question, def, answers) ==
    IF in.yes
    THEN Return(IF def = "undefined" THEN "true" ELSE def,
                Log(c, <<"print", question>>))
    ELSE confirmLoop(c, question, IF def = "undefined" THEN "true" ELSE def,
                     answers)

\* confirm of index.js and part_001: a default not given is true
confirm(s, c, in, question, def, answers) ==
    IF s \in {"p4", "p2"} THEN confirm_p4(c, in, question, def, answers)
    ELSE IF in.yes THEN Return("true", Log(c, <<"print", question>>))
    ELSE confirmLoop(c, question, IF def = "undefined" THEN "true" ELSE def,
                     answers)

\* the loop of promptForPassword and promptForText: an empty line stands for
\* the default, and a default that is undefined asks again.  The result
\* carries the value read in `val`
RECURSIVE promptLoop(_, _, _, _)
promptLoop(c, question, def, answers) ==
    IF answers = <<>> THEN [ret |-> "hang", val |-> Undefined, c |-> c]
    ELSE IF Head(answers) = CtrlC
    THEN [ret |-> "killed", val |-> Undefined,
          c |-> Log(c, <<"ask", question>>)]
    ELSE LET answer == trim(Head(answers))
             value == IF answer = <<>> THEN def ELSE answer
         IN  IF value = Undefined
             THEN promptLoop(Log(c, <<"ask", question>>), question, def,
                             Tail(answers))
             ELSE [ret |-> "true", val |-> value,
                   c |-> Log(c, <<"ask", question>>)]

\* with --yes the question is printed and the default handed back
promptForPassword(c, in, question, def, answers) ==
    IF in.yes
    THEN [ret |-> "true", val |-> def, c |-> Log(c, <<"print", question>>)]
    ELSE promptLoop(c, question, def, answers)

promptForText(c, in, question, def, answers) ==
    IF in.yes
    THEN [ret |-> "true", val |-> def, c |-> Log(c, <<"print", question>>)]
    ELSE promptLoop(c, question, def, answers)

\* var v = prompt(...); K   where the prompt may wait for ever
Ask(r, K(_)) == IF r.ret \in Abrupt THEN r ELSE K(r)

\* port numbers as they are typed, and the numbers they stand for
Numerals == [n \in {"80", "443", "8080"} |->
                CASE n = "80" -> 80 [] n = "443" -> 443 [] OTHER -> 8080]

\* `port = undefined`, also what is made of NaN (if (port !== port))
NoPort == -1

\* parseInt reads the digits the text begins with and ignores what follows
\* them; text that begins with no digit gives NaN
parseInt(t) ==
    IF t # <<>> /\ t[1] \in DOMAIN Numerals THEN Numerals[t[1]] ELSE NoPort

\* checkPort of part_001: a LISTEN line of `netstat -tulpen` with :port in
\* it makes the port busy; when netstat cannot be run the error is printed
\* and the port is taken for free
checkPort(c, in, port) ==
    IF "netstat" \in in.fails
    THEN Return("true", Log(Log(c, <<"exec", "netstat", "-tulpen", "fail">>),
                            <<"print", "netstat error">>))
    ELSE Return(Bool(port \notin in.listening),
                Log(c, <<"exec", "netstat", "-tulpen", "ok">>))

\* the do ... while (port === undefined) loop of promptForPort; only
\* part_001 calls checkPort
RECURSIVE portLoop(_, _, _, _, _, _)
portLoop(s, c, in, question, def, answers) ==
    IF answers = <<>> THEN [ret |-> "hang", val |-> NoPort, c |-> c]
    ELSE LET answer == trim(Head(answers))
             port == IF answer = <<>> THEN def ELSE parseInt(answer)
             c1 == Log(c, <<"ask", question>>)
             free == IF s = "p1" THEN checkPort(c1, in, port)
                     ELSE Return("true", c1)
         IN  IF free.ret # "true"
             THEN portLoop(s, Log(free.c, <<"print", "Port is in use">>), in,
                           question, def, Tail(answers))
             ELSE IF port = NoPort
             THEN portLoop(s, free.c, in, question, def, Tail(answers))
             ELSE [ret |-> "true", val |-> port, c |-> free.c]

\* with --yes the question is printed and the default handed back
promptForPort(s, c, in, question, def, answers) ==
    IF in.yes
    THEN [ret |-> "true", val |-> def, c |-> Log(c, <<"print", question>>)]
    ELSE portLoop(s, c, in, question, def, answers)

-----------------------------------------------------------------------------
(* Images *)

ImageIDs == 1..MaxImageID

\* `docker images` lists the images one per line; the model lists them by
\* descending ID
ImageSeq(imgs) ==
    LET ids == SortDesc({i.ID : i \in imgs})
    IN  [k \in 1..Len(ids) |-> CHOOSE i \in imgs : i.ID = ids[k]]

\* getImages of index.js asks for Repository and ID only; the later scripts
\* add Tag.  Without { all: true } the list is filtered by /^trambar\//
getImages(c, in, all) ==
    IF ~ToolWorks(c, in, "docker")
    THEN [list |-> <<>>, c |-> Log(c, <<"exec", "docker", "images", "fail">>)]
    ELSE LET Keep(i) == all \/ IsTrambar(i.Repository)
         IN  [list |-> SelectSeq(ImageSeq(c.images), Keep),
              c |-> Log(c, <<"exec", "docker", "images", "ok">>)]

removeImage(c, in, id) ==
    LET ok == /\ ToolWorks(c, in, "docker")
              /\ id \notin in.rmiFail
              /\ \E i \in c.images : i.ID = id
    IN  IF ok
        THEN Return("true", Log([c EXCEPT !.images = {i \in @ : i.ID # id}],
                                <<"rmi", id, "ok">>))
        ELSE Return("false", Log(c, <<"rmi", id, "fail">>))

\* _.every(images, removeImage): stops at the first removal that fails
RECURSIVE everyRemoveImage(_, _, _)
everyRemoveImage(c, in, list) ==
    IF list = <<>> THEN Return("true", c)
    ELSE LET r == removeImage(c, in, Head(list).ID)
         IN  IF r.ret # "true" THEN Return("false", r.c)
             ELSE everyRemoveImage(r.c, in, Tail(list))

removeImages(c, in) ==
    With(getImages(c, in, FALSE), LAMBDA g : everyRemoveImage(g.c, in, g.list))

\* _.each(images, ...) of removeUntaggedImages: results are not looked at
RECURSIVE eachRemoveUntagged(_, _, _)
eachRemoveUntagged(c, in, list) ==
    IF list = <<>> THEN c
    ELSE eachRemoveUntagged(
             IF Head(list).Tag = NoneTag
             THEN removeImage(c, in, Head(list).ID).c ELSE c,
             in, Tail(list))

removeUntaggedImages(c, in) ==
    With(getImages(c, in, FALSE), LAMBDA g :
    Return("true", eachRemoveUntagged(g.c, in, g.list)))

\* what a successful `docker-compose pull` leaves behind: the trambar image
\* is fetched when it is missing; when the registry holds a newer one, the
\* local one loses its tag and the newer one takes it
FreeIDs(c) == ImageIDs \ {i.ID : i \in c.images}
Current(c) == {i \in c.images : i.Repository = TrambarNode /\ i.Tag = "latest"}

Pulled(c, in) ==
    IF FreeIDs(c) = {} THEN c
    ELSE LET new == [ID |-> CHOOSE n \in FreeIDs(c) : \A m \in FreeIDs(c) : n <= m,
                     Repository |-> TrambarNode, Tag |-> "latest"]
             Superseded(i) ==
                 [ID |-> i.ID,
                  Repository |-> IF in.keepRepo THEN i.Repository ELSE <<NoneTag>>,
                  Tag |-> NoneTag]
         IN  IF Current(c) = {}
             THEN [c EXCEPT !.images = @ \cup {new}]
             ELSE IF in.newer
             THEN [c EXCEPT !.images =
                      {IF i \in Current(c) THEN Superseded(i) ELSE i : i \in @}
                      \cup {new}]
             ELSE c

\* pullImages of part_001, part_004 and part_002
pullImages_p1(c, in) ==
    Then(dockerCompose(c, in, "docker-compose pull"), LAMBDA c1 :
    Return("true", Pulled(c1, in)))

\* _.each(imagesBefore, ...) of pullImages in index.js: an image that is
\* still there and has no repository name any more is removed
RECURSIVE eachRemoveSuperseded(_, _, _, _)
eachRemoveSuperseded(c, in, before, after) ==
    IF before = <<>> THEN c
    ELSE eachRemoveSuperseded(
             IF \E a \in SeqToSet(after) :
                    a.ID = Head(before).ID /\ a.Repository = <<>>
             THEN removeImage(c, in, Head(before).ID).c ELSE c,
             in, Tail(before), after)

\* pullImages of index.js
pullImages(s, c, in) ==
    IF s # "index" THEN pullImages_p1(c, in)
    ELSE With(getImages(c, in, FALSE), LAMBDA imagesBefore :
         Then(dockerCompose(imagesBefore.c, in, "docker-compose pull"), LAMBDA c1 :
         With(getImages(Pulled(c1, in), in, TRUE), LAMBDA imagesAfter :
         Return("true", eachRemoveSuperseded(imagesAfter.c, in, imagesBefore.list,
                                             imagesAfter.list)))))

-----------------------------------------------------------------------------
(* update and uninstall *)

\* if (isRunning()) { if (!createContainers()) return false; }
createIf(running, c, in) ==
    IF running = "true" THEN createContainers(c, in) ELSE Return("true", c)

\* update of part_004 and part_002: whether to restart is decided before
\* the pull
update_p4(s, c, in) ==
    Then(checkDockerAccess(c, in), LAMBDA c1 :
    Then(checkConfiguration(c1, in), LAMBDA c2 :
    With(isRunning(s, c2, in), LAMBDA restartIt :
    Then(pullImages(s, restartIt.c, in), LAMBDA c3 :
    Then(createIf(restartIt.ret, c3, in), LAMBDA c4 :
    Then(removeUntaggedImages(c4, in), LAMBDA c5 :
    Return("true", c5)))))))

\* update of part_001
update_p1(s, c, in) ==
    Then(checkDockerAccess(c, in), LAMBDA c1 :
    Then(checkConfiguration(c1, in), LAMBDA c2 :
    Then(pullImages(s, c2, in), LAMBDA c3 :
    With(isRunning(s, c3, in), LAMBDA running :
    Then(createIf(running.ret, running.c, in), LAMBDA c4 :
    Then(removeUntaggedImages(c4, in), LAMBDA c5 :
    Return("true", c5)))))))

\* update of index.js
update(s, c, in) ==
    IF s = "p1" THEN update_p1(s, c, in)
    ELSE IF s \in {"p4", "p2"} THEN update_p4(s, c, in)
    ELSE Then(checkDockerAccess(c, in), LAMBDA c1 :
         Then(checkConfiguration(c1, in), LAMBDA c2 :
         Then(pullImages(s, c2, in), LAMBDA c3 :
         With(isRunning(s, c3, in), LAMBDA running :
         Then(createIf(running.ret, running.c, in), LAMBDA c4 :
         Return("true", c4))))))

\* FS.unlinkSync throws when the file does not exist
unlinkSync(c, in, name) ==
    IF ConfigFiles(c, in)[name] = NoFile
    THEN Return("throw", Log(c, <<"unlink", name, "fail">>))
    ELSE Return("true", Log([c EXCEPT !.files[name] = NoFile],
                            <<"unlink", name, "ok">>))

\* try { unlink; unlink; unlink; ... } catch (err) { return false }.  The
\* inner try { FS.rmdirSync } catch {} has no effect the model tracks: the
\* folder is gone when its last file is
destroyConfiguration(c, in) ==
    With(Then(unlinkSync(c, in, ComposeYml), LAMBDA c1 :
         Then(unlinkSync(c1, in, EnvFile), LAMBDA c2 :
         unlinkSync(c2, in, PasswdFile))),
         LAMBDA r : Return(IF r.ret = "true" THEN "true" ELSE "false", r.c))

\* if (isRunning()) { if (!destroyContainers()) return false; }
destroyIf(running, c, in) ==
    IF running = "true" THEN destroyContainers(c, in) ELSE Return("true", c)

\* uninstall of part_001, part_004 and part_002
uninstall_p1(s, c, in) ==
    Then(checkRootAccess(s, c, in), LAMBDA c1 :
    With(isRunning(s, c1, in), LAMBDA running :
    Then(destroyIf(running.ret, running.c, in), LAMBDA c2 :
    Then(removeImages(c2, in), LAMBDA c3 :
    Return("true", c3)))))

\* an uninstall that begins with the configuration
uninstallConfigFirst(s, c, in) ==
    Then(checkRootAccess(s, c, in), LAMBDA c1 :
    Then(destroyConfiguration(c1, in), LAMBDA c2 :
    With(isRunning(s, c2, in), LAMBDA running :
    Then(destroyIf(running.ret, running.c, in), LAMBDA c3 :
    Then(removeImages(c3, in), LAMBDA c4 :
    Return("true", c4))))))

\* uninstall of index.js
uninstall(s, c, in) ==
    IF s # "index" THEN uninstall_p1(s, c, in)
    ELSE Then(checkRootAccess(s, c, in), LAMBDA c1 :
         With(isRunning(s, c1, in), LAMBDA running :
         Then(destroyIf(running.ret, running.c, in), LAMBDA c2 :
         Then(removeImages(c2, in), LAMBDA c3 :
         Then(destroyConfiguration(c3, in), LAMBDA c4 :
         Return("true", c4))))))

-----------------------------------------------------------------------------
(* Installing Docker and Docker Compose *)

\* a step of run(a) && run(b) && ...: a package installation that succeeds
\* makes the program it installs available
Step(tool, cmd, installs) == [tool |-> tool, cmd |-> cmd, installs |-> installs]

Installing(c, what) ==
    IF what = "docker" THEN [c EXCEPT !.dockerInstalled = TRUE]
    ELSE IF what = "docker-compose" THEN [c EXCEPT !.composeInstalled = TRUE]
    ELSE c

\* run(a) && run(b) && ...: the first failure ends the chain
RECURSIVE runChain(_, _, _)
runChain(c, in, steps) ==
    IF steps = <<>> THEN Return("true", c)
    ELSE Then(run(c, in, Head(steps).tool, Head(steps).cmd), LAMBDA c1 :
         runChain(Installing(c1, Head(steps).installs), in, Tail(steps)))

EnableDocker ==
    <<Step("systemctl", "systemctl enable docker", ""),
      Step("systemctl", "systemctl start docker", "")>>

\* the if / else if chain over the package managers; `none` is what is
\* printed when no package manager is found
viaPackageManager(c, in, apt, pacman, yum, urpmi, none) ==
    With(isInstalled(c, in, "apt-get"), LAMBDA a :
    IF a.ret = "true" THEN runChain(a.c, in, apt) ELSE
    With(isInstalled(a.c, in, "pacman"), LAMBDA p :
    IF p.ret = "true" THEN runChain(p.c, in, pacman) ELSE
    With(isInstalled(p.c, in, "yum"), LAMBDA y :
    IF y.ret = "true" THEN runChain(y.c, in, yum) ELSE
    With(isInstalled(y.c, in, "urpmi"), LAMBDA u :
    IF u.ret = "true" THEN runChain(u.c, in, urpmi)
    ELSE Return("false", Log(u.c, <<"print", none>>))))))

\* what the scripts print when they cannot install a program
Manually(s) ==
    IF s \in {"p4", "p2"} THEN "You must install it manually"
    ELSE "Unable to find suitable package manager"

\* an installDocker that goes to the package manager without asking
installDockerUnasked(s, c, in) ==
    With(isInstalled(c, in, "docker"), LAMBDA i :
    IF i.ret = "true" THEN i
    ELSE viaPackageManager(i.c, in,
             <<Step("apt-get", "apt-get -y install docker.io", "docker")>>,
             <<Step("pacman", "pacman --noconfirm -S docker", "docker")>>
                 \o EnableDocker,
             <<Step("yum", "yum -y install docker", "docker")>> \o EnableDocker,
             <<Step("urpmi", "urpmi --auto docker", "docker")>> \o EnableDocker,
             Manually(s)))

\* part_004 and part_002 install on Linux only
installDocker(s, c, in) ==
    With(isInstalled(c, in, "docker"), LAMBDA i :
    IF i.ret = "true" THEN i
    ELSE IF s \in {"p4", "p2"} /\ os # "Linux"
    THEN Return("false", Log(i.c, <<"print", Manually(s)>>))
    ELSE Then(confirm(s, i.c, in, "Do you want to install Docker?",
                      IF s \in {"p4", "p2"} THEN "true" ELSE "undefined",
                      in.confirmDocker), LAMBDA c1 :
         viaPackageManager(c1, in,
             <<Step("apt-get", "apt-get -y install docker.io", "docker")>>,
             <<Step("pacman", "pacman --noconfirm -S docker", "docker")>>
                 \o EnableDocker,
             <<Step("yum", "yum -y install docker", "docker")>> \o EnableDocker,
             <<Step("urpmi", "urpmi --auto docker", "docker")>> \o EnableDocker,
             Manually(s))))

\* an installation step that takes the program for installed
assumeInstalled(s, c, in) == Return("true", c)

\* part_004 asks without a default; part_002 with the default true
installDockerCompose(s, c, in) ==
    With(isInstalled(c, in, "docker-compose"), LAMBDA i :
    IF i.ret = "true" THEN i
    ELSE IF s \in {"p4", "p2"} /\ os # "Linux"
    THEN Return("false", Log(i.c, <<"print", Manually(s)>>))
    ELSE Then(confirm(s, i.c, in, "Do you want to install Docker Compose?",
                      IF s = "p2" THEN "true" ELSE "undefined",
                      in.confirmCompose), LAMBDA c1 :
         viaPackageManager(c1, in,
             <<Step("apt-get", "apt-get -y install docker-compose",
                    "docker-compose")>>,
             <<Step("pacman", "pacman --noconfirm -S docker-compose",
                    "docker-compose")>>,
             <<Step("yum", "yum -y install epel-release", ""),
               Step("yum", "yum -y install python-pip", ""),
               Step("pip", "pip install docker-compose", "docker-compose"),
               Step("yum", "yum -y upgrade python*", "")>>,
             <<Step("urpmi", "urpmi --auto docker-compose", "docker-compose")>>,
             Manually(s))))

-----------------------------------------------------------------------------
(* Writing the configuration *)

FileGen(f) == IF f = NoFile THEN 0 ELSE f.content[2]

\* what the template gives with freshly drawn random passwords: a text that
\* differs from the one the file holds
Render(c, name) == <<"cfg", (FileGen(c.files[name]) % MaxGen) + 1>>

\* FS.writeFileSync: a new file gets the default mode, an existing one keeps
\* its mode
writeFileSync(c, name, text) ==
    Log([c EXCEPT !.files[name] =
             [content |-> text,
              mode |-> IF @ = NoFile THEN Mode0644 ELSE @.mode]],
        <<"write", name>>)

chmodSync(c, name, mode) == [c EXCEPT !.files[name].mode = mode]

\* FS.existsSync
Exists(c, name) == c.files[name] # NoFile

\* BcryptJS.hashSync(password, 10): "$2a$", the cost, salt and digest
hashSync(password) == <<"$", "2", "a", "$", "10$">> \o password

\* `root:${'$2y$' + hash.substring(4)}\n`
PasswdText(password) ==
    <<"root", ":", "$2y$">>
        \o SubSeq(hashSync(password), 5, Len(hashSync(password))) \o <<"\n">>

\* a test that lets every value through
neverFalsy(password) == FALSE

\* !password
Falsy(password) == password = Undefined \/ password = <<>>

\* the question asked before an existing file is replaced
Overwrite(name) ==
    CASE name = ComposeYml -> "Overwrite docker-compose.yml?"
      [] name = EnvFile -> "Overwrite .env?"
      [] name = PasswdFile -> "Overwrite trambar.htpasswd?"
      [] name = SslConf -> "Overwrite default/ssl.conf?"
      [] name = SnakeoilCrt -> "Overwrite certs/snakeoil.crt?"
      [] OTHER -> "Overwrite nginx.yml?"

\* if (FS.existsSync(path)) { if (!confirm(`Overwrite ${path}?`, false)) return; }
mayWrite(s, c, in, name) ==
    IF Exists(c, name)
    THEN confirm(s, c, in, Overwrite(name), "false", in.overwrite[name])
    ELSE Return("true", c)

\* return;
Declined(q) == Return(IF q.ret \in Abrupt THEN q.ret ELSE "undefined", q.c)

\* savePassword of part_001 and part_004
savePassword_p1(s, c, in, password) ==
    IF Falsy(password) THEN Return("false", c)
    ELSE With(mayWrite(s, c, in, PasswdFile), LAMBDA q :
         IF q.ret # "true" THEN Declined(q)
         ELSE Return("true", writeFileSync(q.c, PasswdFile, PasswdText(password))))

\* savePassword of index.js
savePassword(s, c, in, password) ==
    IF s # "index" THEN savePassword_p1(s, c, in, password)
    ELSE IF Falsy(password) THEN Return("false", c)
    ELSE Return("true", writeFileSync(c, PasswdFile, PasswdText(password)))

\* if (mode) { FS.chmodSync(path, mode); }
chmodIf(c, name, mode) == IF mode # 0 THEN chmodSync(c, name, mode) ELSE c

\* createConfigFile of part_001 and part_004; mode 0 stands for no mode given
createConfigFile(s, c, in, name, mode) ==
    With(mayWrite(s, c, in, name), LAMBDA q :
    IF q.ret # "true" THEN Declined(q)
    ELSE Return("undefined",
                chmodIf(writeFileSync(q.c, name, Render(q.c, name)), name, mode)))

\* if (!mode) mode = 0644; if (options.dev) mode = 0666
modeOf(in, mode) ==
    IF in.dev THEN Mode0666 ELSE IF mode = 0 THEN Mode0644 ELSE mode

\* writeFile of part_002
writeFile(s, c, in, name, text, mode) ==
    With(mayWrite(s, c, in, name), LAMBDA q :
    IF q.ret # "true" THEN Declined(q)
    ELSE Return("true",
                chmodSync(writeFileSync(q.c, name, text), name,
                          modeOf(in, mode))))

writeConfigFile(s, c, in, name, mode) ==
    writeFile(s, c, in, name, Render(c, name), mode)

writePasswordFile(s, c, in, name, password) ==
    IF Falsy(password) THEN Return("false", c)
    ELSE writeFile(s, c, in, name, PasswdText(password), 0)

\* catch (err) { console.error(err.message); return false; }
Try(r) ==
    IF r.ret = "throw" THEN Return("false", Log(r.c, <<"print", "error">>)) ELSE r

\* createDefaultConfiguration of index.js: the files are written without a
\* question, and what savePassword returns is not looked at
createDefaultConfiguration(s, c, in) ==
    Try(Ask(promptForPassword(
                chmodSync(writeFileSync(writeFileSync(c, ComposeYml,
                                                      Render(c, ComposeYml)),
                                        EnvFile, Render(c, EnvFile)),
                          EnvFile, Mode0600),
                in, "Password for Trambar root account", <<defaultPassword>>,
                in.password), LAMBDA pw :
        Do(savePassword(s, pw.c, in, pw.val), LAMBDA c1 :
        Return("true", c1))))

-----------------------------------------------------------------------------
(* createConfiguration *)

\* prompts whose answers leave no trace in the modelled state (ports, host
\* name): with --yes the question is printed, otherwise it is asked
RECURSIVE askAll(_, _, _)
askAll(c, in, questions) ==
    IF questions = <<>> THEN c
    ELSE askAll(Log(c, <<IF in.yes THEN "print" ELSE "ask", Head(questions)>>),
                in, Tail(questions))

\* promptForPath for the certificate and the key, then CommonDir.  With
\* --yes a default that is undefined comes back and FS.realpathSync throws;
\* without it the question is repeated until an existing file is named.  A
\* certificate in a root level folder ends the process
ownCertificate(c, in) ==
    With(askAll(c, in, <<"Full path of certificate", "Full path of private key">>),
         LAMBDA c1 :
         IF in.cert = "none" THEN Return(IF in.yes THEN "throw" ELSE "hang", c1)
         ELSE IF in.cert = "root"
         THEN Return("exit", Log(c1, <<"print", "root level folder">>))
         ELSE Return("true", c1))

RootPassword == "Password for Trambar root account"

\* createConfiguration of part_001
createConfiguration_p1(s, c, in) ==
    Try(
    Ask(confirm(s, c, in, "Set up SSL?", "false", in.ssl), LAMBDA ssl :
    Do(IF ssl.ret = "true"
       THEN ownCertificate(askAll(ssl.c, in, <<"Server domain name", "HTTP port",
                                               "HTTPS port">>), in)
       ELSE Return("true", askAll(ssl.c, in, <<"HTTP port">>)), LAMBDA c1 :
    Ask(promptForPassword(c1, in, RootPassword, <<defaultPassword>>, in.password),
        LAMBDA pw :
    Do(createConfigFile(s, pw.c, in, ComposeYml, 0), LAMBDA c2 :
    Do(createConfigFile(s, c2, in, SslConf, 0), LAMBDA c3 :
    Do(createConfigFile(s, c3, in, EnvFile, Mode0600), LAMBDA c4 :
    Do(savePassword(s, c4, in, pw.val), LAMBDA c5 :
    Return("true", c5)))))))))

\* var pub = (options.dev) ? false : isPublicServer(); only part_002 has
\* the option
pub(in) == in.public /\ ~in.dev

\* config.certbot = confirm(...), asked when SSL is wanted; otherwise the
\* value the configuration started with stays
useCertbot(s, ssl, in) ==
    IF ssl.ret = "true"
    THEN confirm(s, ssl.c, in, "Use certbot?", Bool(pub(in)), in.useCertbot)
    ELSE Return(Bool(pub(in)), ssl.c)

\* config.snakeoil: asked when SSL is wanted without certbot, false with
\* certbot, and the initial value when SSL is declined
useSnakeoil(s, ssl, certbot, in) ==
    IF ssl.ret = "true" /\ certbot.ret # "true"
    THEN confirm(s, certbot.c, in, "Use self-signed SSL certificate?",
                 Bool(~pub(in)), in.useSnakeoil)
    ELSE Return(IF ssl.ret = "true" THEN "false" ELSE Bool(~pub(in)), certbot.c)

\* the questions of part_004 between the choice of certificate and the
\* password
serverQuestions_p4(ssl, certbot, snakeoil, in) ==
    IF ssl.ret # "true" THEN Return("true", askAll(snakeoil.c, in, <<"HTTP port">>))
    ELSE IF certbot.ret = "true"
    THEN Return("true", askAll(snakeoil.c, in,
                               <<"Server domain name", "Contact e-mail",
                                 "HTTPS port", "HTTP port">>))
    ELSE IF snakeoil.ret = "true"
    THEN Return("true", askAll(snakeoil.c, in,
                               <<"Server domain name", "HTTPS port", "HTTP port">>))
    ELSE Do(ownCertificate(askAll(snakeoil.c, in, <<"Server domain name">>), in),
            LAMBDA c1 : Return("true", askAll(c1, in, <<"HTTPS port", "HTTP port">>)))

\* createConfiguration of part_004
createConfiguration_p4(s, c, in) ==
    Try(
    Ask(confirm(s, c, in, "Set up SSL?", "true", in.ssl), LAMBDA ssl :
    Ask(useCertbot(s, ssl, in), LAMBDA certbot :
    Ask(useSnakeoil(s, ssl, certbot, in), LAMBDA snakeoil :
    Do(serverQuestions_p4(ssl, certbot, snakeoil, in), LAMBDA c1 :
    Ask(promptForPassword(c1, in, RootPassword, <<defaultPassword>>, in.password),
        LAMBDA pw :
    Do(IF snakeoil.ret = "true"
       THEN createConfigFile(s, pw.c, in, SnakeoilCrt, 0)
       ELSE Return("undefined", pw.c), LAMBDA c2 :
    Do(createConfigFile(s, c2, in, ComposeYml, 0), LAMBDA c3 :
    Do(createConfigFile(s, c3, in, EnvFile, Mode0600), LAMBDA c4 :
    Do(savePassword(s, c4, in, pw.val), LAMBDA c5 :
    Return("true", c5)))))))))))

\* promptForDomains: asks until the list is not empty; with --yes
\* promptForText hands back an undefined default for ever
promptForDomains(c, in, question, list, typed) ==
    IF list # <<>> THEN [ret |-> "true", list |-> list, c |-> c]
    ELSE IF in.yes \/ typed = <<>>
    THEN [ret |-> "hang", list |-> <<>>, c |-> Log(c, <<"print", question>>)]
    ELSE [ret |-> "true", list |-> typed, c |-> Log(c, <<"ask", question>>)]

\* no list is asked for
NoDomains(c) == [ret |-> "true", list |-> <<>>, c |-> c]

CertbotJson == "certbot.json"
Crontab == "/etc/cron.d/trambar-certbot-renewal"

\* cronAvailable = FS.existsSync('/etc/cron.d') on Linux, false elsewhere
cronAvailable == os = "Linux"

\* FS.writeFileSync throws when the folder does not exist; nobody is asked
\* whether an existing certbot.json may be replaced.  `registry` is the file
\* of the default folder; a file written to another folder is not kept
writeCertbotConfig(c, in, config) ==
    IF ~FolderExists(c, in)
    THEN Return("throw", Log(c, <<"throw", "ENOENT", CertbotJson>>))
    ELSE Return("undefined",
                Log([c EXCEPT !.registry = IF in.config = ""
                                           THEN [config EXCEPT !.exists = TRUE]
                                           ELSE @],
                    <<"write", CertbotJson>>))

\* the text of the file when it can be read and parsed, else null
loadCertbotConfig(c, in) ==
    IF in.config = "" /\ c.registry.exists THEN c.registry ELSE NoRegistry

\* contact_email and notification, asked for when certbot is to be used
certbotContact(s, c, in) ==
    Ask(promptForText(c, in, "Contact e-mail:", Undefined, <<in.email>>),
        LAMBDA mail :
    Ask(confirm(s, mail.c, in, "Receive notification e-mails from EFF?", "true",
                in.notify), LAMBDA n :
    [ret |-> "true", email |-> mail.val, notification |-> n.ret = "true",
     c |-> n.c]))

NoContact(c) == [ret |-> "true", email |-> <<>>, notification |-> TRUE, c |-> c]

\* after the password: GitLab and WordPress, each with its domain names
addOn(s, c, in, question, answer, domainQuestion, typed) ==
    Ask(confirm(s, c, in, question, "false", answer), LAMBDA wanted :
    IF wanted.ret = "true"
    THEN promptForDomains(wanted.c, in, domainQuestion, <<>>, typed)
    ELSE NoDomains(wanted.c))

\* if (config.ssl) { if (config.certbot) writeCertbotConfig(...) else if
\* (config.snakeoil) writeSnakeoilCertificate(...) }
writeCertificates(s, c, in, ssl, certbot, snakeoil, config) ==
    IF ssl.ret = "true" /\ certbot.ret = "true"
    THEN writeCertbotConfig(c, in, config)
    ELSE IF ssl.ret = "true" /\ snakeoil.ret = "true"
    THEN writeFile(s, c, in, SnakeoilCrt, Render(c, SnakeoilCrt), 0)
    ELSE Return("undefined", c)

\* if (config.certbot) { if (cronAvailable) { if (confirm(...)) addRenewalCrontab() } }
renewalCrontab(s, c, in, certbot) ==
    IF certbot.ret = "true" /\ cronAvailable
    THEN Ask(confirm(s, c, in, "Add crontab for renewing SSL certificate?",
                     "true", in.cron), LAMBDA cron :
         Return("true", IF cron.ret = "true"
                        THEN Log(cron.c, <<"write", Crontab>>) ELSE cron.c))
    ELSE Return("true", c)

\* if (options.dev) { config.source_folder = promptForText(...);
\* config.template_folder = promptForText(...) }: two questions that have a
\* default, answered with the enter key
devFolders(c, in) ==
    IF in.dev
    THEN promptForText(promptForText(c, in, "Trambar git working folder:",
                                     <<"src">>, <<AnsEnter>>).c,
                       in, "Generic template git working folder:",
                       <<"src">>, <<AnsEnter>>).c
    ELSE c

\* createConfiguration of part_002.  nginx.yml stands for the per-service
\* files written by the same calls (node.yml, postgres.yml, default.conf,
\* those of GitLab and WordPress, and docker-compose.override.yml of --dev)
createConfiguration_p2(s, c, in) ==
    Try(
    Ask(confirm(s, devFolders(c, in), in, "Set up SSL?", Bool(pub(in)),
                in.ssl), LAMBDA ssl :
    Ask(useCertbot(s, ssl, in), LAMBDA certbot :
    Ask(useSnakeoil(s, ssl, certbot, in), LAMBDA snakeoil :
    Ask(IF ssl.ret = "true"
        THEN promptForDomains(snakeoil.c, in, "Server domain names:", <<>>,
                              in.domains)
        ELSE NoDomains(snakeoil.c), LAMBDA dom :
    Ask(IF ssl.ret = "true" /\ certbot.ret = "true"
        THEN certbotContact(s, dom.c, in) ELSE NoContact(dom.c), LAMBDA contact :
    Do(IF ssl.ret = "true" /\ certbot.ret # "true" /\ snakeoil.ret # "true"
       THEN ownCertificate(contact.c, in) ELSE Return("true", contact.c),
       LAMBDA c1 :
    Ask(promptForPassword(
            askAll(c1, in, IF ssl.ret = "true" THEN <<"HTTPS port", "HTTP port">>
                           ELSE <<"HTTP port">>),
            in, RootPassword, <<defaultPassword>>, in.password), LAMBDA pw :
    Ask(addOn(s, pw.c, in, "Install GitLab?", in.gitlab, "GitLab domain names:",
              in.gitlabDomains), LAMBDA gitlab :
    Ask(addOn(s, gitlab.c, in, "Install WordPress?", in.wordpress,
              "WordPress domain names:", in.wordpressDomains), LAMBDA wordpress :
    Do(writeConfigFile(s, wordpress.c, in, ComposeYml, 0), LAMBDA c2 :
    Do(writeConfigFile(s, c2, in, NginxYml, 0), LAMBDA c3 :
    Do(writeConfigFile(s, c3, in, EnvFile, Mode0600), LAMBDA c4 :
    Do(writePasswordFile(s, c4, in, PasswdFile, pw.val), LAMBDA c5 :
    Do(writeCertificates(s, c5, in, ssl, certbot, snakeoil,
                         [exists |-> TRUE,
                          domains |-> dom.list \o gitlab.list \o wordpress.list,
                          email |-> contact.email,
                          notification |-> contact.notification]), LAMBDA c6 :
    renewalCrontab(s, c6, in, certbot))))))))))))))))

-----------------------------------------------------------------------------
(* Certificates (part_002) *)

\* the name of a running container of this prefix with nginx in its name
findNginx(c, in) ==
    With(getProcesses_p2(c, in), LAMBDA ps :
    [found |-> \E p \in ps.list : p.Names[2] = "nginx", c |-> ps.c])

\* docker run --rm ... certbot/certbot followed by the certbot arguments
runCertbot(c, in, cargs) == run(findNginx(c, in).c, in, "docker", cargs)

CertonlyCmd == "certbot certonly"
RenewCmd == "certbot renew"

\* the arguments of certbot certonly that depend on the registry: -d for
\* each name of config.domains, --email, --eff-email or --no-eff-email, and
\* --expand when asked for
CertonlyArgs(config, expand) ==
    <<"args", [d |-> config.domains, email |-> config.email,
               eff |-> config.notification, expand |-> expand]>>

\* certbot certonly: a certificate is issued when /etc/letsencrypt holds none
acquireCertbotCertificate(c, in, config, expand) ==
    Then(runCertbot(Log(c, CertonlyArgs(config, expand)), in, CertonlyCmd),
         LAMBDA c1 :
    Return("true", IF c1.certTime = 0 THEN [c1 EXCEPT !.certTime = 1] ELSE c1))

\* FS.statSync throws when the path does not exist
getModifiedTime(c) ==
    IF c.certTime = 0
    THEN [ret |-> "throw", mtime |-> 0, c |-> Log(c, <<"throw", "ENOENT">>)]
    ELSE [ret |-> "true", mtime |-> c.certTime, c |-> c]

reloadNginx(c, in) ==
    With(findNginx(c, in), LAMBDA n :
    IF ~n.found THEN Return("false", n.c)
    ELSE run(n.c, in, "docker", "nginx reload"))

\* certbot renew replaces a certificate that is about to expire
Renewed(c, in) ==
    IF in.renewed /\ c.certTime < MaxCertTime
    THEN [c EXCEPT !.certTime = @ + 1] ELSE c

\* a renewal that reloads nginx whatever the modification times are
reloadUnconditionally(c, in) ==
    Ask(getModifiedTime(c), LAMBDA mtimeBefore :
    Then(runCertbot(mtimeBefore.c, in, RenewCmd), LAMBDA c1 :
    Do(reloadNginx(Renewed(c1, in), in), LAMBDA c2 : Return("true", c2))))

renewCertbotCerts(c, in) ==
    Ask(getModifiedTime(c), LAMBDA mtimeBefore :
    Then(runCertbot(mtimeBefore.c, in, RenewCmd), LAMBDA c1 :
    Ask(getModifiedTime(Renewed(c1, in)), LAMBDA mtimeAfter :
    IF mtimeAfter.mtime > mtimeBefore.mtime
    THEN Do(reloadNginx(mtimeAfter.c, in), LAMBDA c2 : Return("true", c2))
    ELSE Return("true", mtimeAfter.c))))

\* what renewCertbotCerts returns is not looked at
renewCertificate(s, c, in) ==
    Then(checkRootAccess(s, c, in), LAMBDA c1 :
    Do(renewCertbotCerts(c1, in), LAMBDA c2 :
    Return("true", c2)))

RECURSIVE eachPrint(_, _)
eachPrint(c, names) ==
    IF names = <<>> THEN c
    ELSE eachPrint(Log(c, <<"print", Head(names)>>), Tail(names))

\* the function ends without a return statement
listDomainNames(s, c, in) ==
    With(loadCertbotConfig(c, in), LAMBDA config :
    Return("undefined",
           IF config.exists THEN eachPrint(c, config.domains) ELSE c))

\* the values of a list in order of first appearance
RECURSIVE uniq(_)
uniq(list) ==
    IF list = <<>> THEN <<>>
    ELSE IF list[Len(list)] \in SeqToSet(SubSeq(list, 1, Len(list) - 1))
    THEN uniq(SubSeq(list, 1, Len(list) - 1))
    ELSE Append(uniq(SubSeq(list, 1, Len(list) - 1)), list[Len(list)])

\* _.union(a, b)
union(a, b) == uniq(a \o b)

\* _.difference(a, b)
difference(a, b) == LET Keep(x) == x \notin SeqToSet(b) IN SelectSeq(a, Keep)

\* if (!config) { config = {}; config.email = ...; config.notification = ...;
\* config.domains = [] }
orNewConfig(s, c, in, loaded) ==
    IF loaded.exists
    THEN [ret |-> "true", email |-> loaded.email,
          notification |-> loaded.notification, c |-> c]
    ELSE certbotContact(s, c, in)

\* what acquireCertbotCertificate returns is not looked at
addDomainNames(s, c, in) ==
    Then(checkRootAccess(s, c, in), LAMBDA c1 :
    Ask(promptForDomains(c1, in, "Domains to add:", in.args, in.domains),
        LAMBDA names :
    With(loadCertbotConfig(names.c, in), LAMBDA loaded :
    Ask(orNewConfig(s, names.c, in, loaded), LAMBDA contact :
    With([exists |-> TRUE, domains |-> union(loaded.domains, names.list),
          email |-> contact.email, notification |-> contact.notification],
         LAMBDA config :
    Do(writeCertbotConfig(contact.c, in, config), LAMBDA c2 :
    Do(acquireCertbotCertificate(c2, in, config, TRUE), LAMBDA c3 :
    Return("true", c3))))))))

removeDomainNames(s, c, in) ==
    Then(checkRootAccess(s, c, in), LAMBDA c1 :
    With(loadCertbotConfig(c1, in), LAMBDA loaded :
    IF ~loaded.exists THEN Return("false", c1) ELSE
    Ask(promptForDomains(c1, in, "Domains to remove:", in.args, in.domains),
        LAMBDA names :
    With([loaded EXCEPT !.domains = difference(@, names.list)], LAMBDA config :
    Do(writeCertbotConfig(names.c, in, config), LAMBDA c2 :
    Do(acquireCertbotCertificate(c2, in, config, TRUE), LAMBDA c3 :
    Return("true", c3)))))))

requestCertificate(s, c, in) ==
    Then(checkRootAccess(s, c, in), LAMBDA c1 :
    With(loadCertbotConfig(c1, in), LAMBDA loaded :
    IF ~loaded.exists THEN Return("false", c1) ELSE
    Do(acquireCertbotCertificate(c1, in, loaded, FALSE), LAMBDA c2 :
    Return("true", c2))))

-----------------------------------------------------------------------------
(* password and install *)

\* setPassword of part_002 does not look for the configuration first
setPassword_p2(s, c, in) ==
    Then(checkRootAccess(s, c, in), LAMBDA c1 :
    Ask(promptForPassword(c1, in, "Password:", Undefined, in.password),
        LAMBDA pw :
    Then(writePasswordFile(s, pw.c, in, PasswdFile, pw.val), LAMBDA c2 :
    Return("true", c2))))

\* setPassword of index.js, part_001 and part_004
setPassword(s, c, in) ==
    IF s = "p2" THEN setPassword_p2(s, c, in)
    ELSE Then(checkRootAccess(s, c, in), LAMBDA c1 :
         Then(checkConfiguration(c1, in), LAMBDA c2 :
         Ask(promptForPassword(c2, in, "Password:", Undefined, in.password),
             LAMBDA pw :
         Then(savePassword(s, pw.c, in, pw.val), LAMBDA c3 :
         Return("true", c3)))))

Complete(c) == Log(c, <<"print", "Installation complete">>)

\* install of part_001
install_p1(s, c, in) ==
    Then(checkRootAccess(s, c, in), LAMBDA c1 :
    Then(createConfiguration_p1(s, c1, in), LAMBDA c2 :
    Then(installDocker(s, c2, in), LAMBDA c3 :
    Then(installDockerCompose(s, c3, in), LAMBDA c4 :
    Then(pullImages(s, c4, in), LAMBDA c5 :
    Return("true", Complete(c5)))))))

\* install of part_004
install_p4(s, c, in) ==
    Then(checkRootAccess(s, c, in), LAMBDA c1 :
    Then(createConfiguration_p4(s, c1, in), LAMBDA c2 :
    Then(installDocker(s, c2, in), LAMBDA c3 :
    Then(installDockerCompose(s, c3, in), LAMBDA c4 :
    Then(checkDockerAccess(c4, in), LAMBDA c5 :
    Then(pullImages(s, c5, in), LAMBDA c6 :
    Return("true", Complete(c6))))))))

\* var config = loadCertbotConfig(); if (config) { if (confirm(...))
\* acquireCertbotCertificate(config) }: the result is not looked at
acquireNow(s, c, in) ==
    With(loadCertbotConfig(c, in), LAMBDA config :
    IF ~config.exists THEN Return("true", c) ELSE
    Ask(confirm(s, c, in, "Acquire SSL certificate through certbot now?", "true",
                in.acquire), LAMBDA q :
    IF q.ret # "true" THEN Return("true", q.c) ELSE
    Do(acquireCertbotCertificate(q.c, in, config, FALSE), LAMBDA c1 :
    Return("true", c1))))

\* install of part_002
install_p2(s, c, in) ==
    Then(checkRootAccess(s, c, in), LAMBDA c1 :
    Then(createConfiguration_p2(s, c1, in), LAMBDA c2 :
    Then(installDocker(s, c2, in), LAMBDA c3 :
    Then(installDockerCompose(s, c3, in), LAMBDA c4 :
    Then(checkDockerAccess(c4, in), LAMBDA c5 :
    Then(pullImages(s, c5, in), LAMBDA c6 :
    Then(acquireNow(s, c6, in), LAMBDA c7 :
    Return("true", Complete(c7)))))))))

\* install of index.js
install(s, c, in) ==
    CASE s = "p1" -> install_p1(s, c, in)
      [] s = "p4" -> install_p4(s, c, in)
      [] s = "p2" -> install_p2(s, c, in)
      [] OTHER ->
           Then(checkRootAccess(s, c, in), LAMBDA c1 :
           Then(installDocker(s, c1, in), LAMBDA c2 :
           Then(installDockerCompose(s, c2, in), LAMBDA c3 :
           Then(createDefaultConfiguration(s, c3, in), LAMBDA c4 :
           Then(pullImages(s, c4, in), LAMBDA c5 :
           Return("true", Complete(c5)))))))

-----------------------------------------------------------------------------
(* The command line *)

\* var defaultHostName = guessServerName(), evaluated while part_001 loads:
\* the first entry of /etc/letsencrypt/live, or else what `hostname` prints
guessServerName(s, c, in) ==
    IF s = "p1" /\ ~in.live THEN Log(c, <<"exec", "hostname", "">>) ELSE c

\* a word of the command line: its spelling in small letters and the
\* positions of the letters typed as capitals
Word(name, caps) == [name |-> name, caps |-> caps]

\* the word as it was typed
asTyped(word) == word

\* _.toLower(command)
toLower(word) == [word EXCEPT !.caps = {}]

\* the case label the word is equal to; a word with a capital letter is
\* equal to none
Label(word) == IF word.caps = {} THEN word.name ELSE "?"

\* the body of switch (...) { case 'compose': return editCompose(); ...
\* default: console.log(`Unknown command: ${command}`); return false };
\* part_002 adds the certificate commands
switch(s, c, in, command) ==
    CASE command = "compose" -> editCompose(s, c, in)
      [] command = "env" -> editEnv(s, c, in)
      [] command = "install" -> install(s, c, in)
      [] command = "logs" -> showLogs(s, c, in)
      [] command = "password" -> setPassword(s, c, in)
      [] command = "restart" -> restart(s, c, in)
      [] command = "start" -> start(s, c, in)
      [] command = "stats" -> showStats(s, c, in)
      [] command = "stop" -> stop(s, c, in)
      [] command = "update" -> update(s, c, in)
      [] command = "uninstall" -> uninstall(s, c, in)
      [] s = "p2" /\ command = "add" -> addDomainNames(s, c, in)
      [] s = "p2" /\ command = "list" -> listDomainNames(s, c, in)
      [] s = "p2" /\ command = "remove" -> removeDomainNames(s, c, in)
      [] s = "p2" /\ command = "renew" -> renewCertificate(s, c, in)
      [] s = "p2" /\ command = "request" -> requestCertificate(s, c, in)
      [] OTHER -> Return("false", Log(c, <<"print", "Unknown command", command>>))

runCommand(s, c, in, command) == switch(s, c, in, Label(toLower(command)))

\* var command = _.get(options, [ '*', 0 ]); if (command) { runCommand } else
\* { if (options.version) print the version, else print the usage guide }.
\* "" stands for a command line without a command
main(s, c, in, name) ==
    IF name # "" THEN runCommand(s, c, in, Word(name, in.caps))
    ELSE IF in.version THEN Return("true", Log(c, <<"print", "Trambar version">>))
    ELSE Return("true", Log(c, <<"print", "usage">>))

\* if (!runCommand(command)) process.exit(-1); ... process.exit(0); an
\* exception nobody catches ends node with status 1
exitStatus(ret) ==
    CASE ret = "true" -> ExitOK
      [] ret = "throw" -> ExitUncaught
      [] ret = "killed" -> ExitInterrupted
      [] OTHER -> ExitFail

-----------------------------------------------------------------------------
(* What the user and the environment may do during one invocation *)

Secret == <<"s", "3", "c">>
DomainA == "a.org"
DomainB == "b.org"

Prefixes == {"", AltPrefix}
Folders == {"", EmptyFolder}

AllFiles(answer) == [f \in FileNames |-> <<answer>>]

\* the options and the failures common to the commands that drive containers
ContainerIn(cmd) ==
    {[DefaultIn EXCEPT !.prefix = p, !.config = cf] :
        p \in Prefixes, cf \in Folders}
    \cup {[DefaultIn EXCEPT !.fails = {cmd}],
          [DefaultIn EXCEPT !.access = FALSE]}

StatsIn ==
    {[DefaultIn EXCEPT !.prefix = p, !.fails = f] :
        p \in Prefixes, f \in {{}, {"docker stats"}}}
    \cup {[DefaultIn EXCEPT !.access = FALSE]}

UpdateIn ==
    {[DefaultIn EXCEPT !.prefix = p, !.newer = n] :
        p \in Prefixes, n \in BOOLEAN}
    \cup {[DefaultIn EXCEPT !.newer = TRUE, !.keepRepo = FALSE],
          [DefaultIn EXCEPT !.newer = TRUE, !.rmiFail = ImageIDs],
          [DefaultIn EXCEPT !.fails = {"docker-compose pull"}],
          [DefaultIn EXCEPT !.fails = {"docker-compose up"}],
          [DefaultIn EXCEPT !.newer = TRUE, !.fails = {"docker-compose up"}],
          [DefaultIn EXCEPT !.config = EmptyFolder],
          [DefaultIn EXCEPT !.access = FALSE]}

UninstallIn ==
    {[DefaultIn EXCEPT !.prefix = p, !.rmiFail = r] :
        p \in Prefixes, r \in {{}} \cup {{i} : i \in ImageIDs}}
    \cup {[DefaultIn EXCEPT !.fails = {"docker-compose down"}],
          [DefaultIn EXCEPT !.help = TRUE],
          [DefaultIn EXCEPT !.config = EmptyFolder],
          [DefaultIn EXCEPT !.root = FALSE],
          [DefaultIn EXCEPT !.access = FALSE]}

PasswordIn ==
    {[DefaultIn EXCEPT !.password = pw, !.overwrite = AllFiles(o)] :
        pw \in {<<Secret>>, <<AnsEnter, Secret>>}, o \in {AnsEnter, AnsY, AnsN}}
    \cup {[DefaultIn EXCEPT !.yes = TRUE],
          [DefaultIn EXCEPT !.root = FALSE, !.password = <<Secret>>]}

EditIn ==
    {[DefaultIn EXCEPT !.root = r, !.fails = f] :
        r \in BOOLEAN, f \in {{}, {"editor"}}}
    \cup {[DefaultIn EXCEPT !.root = FALSE, !.live = TRUE]}

PkgChoices ==
    {{}, {"apt-get"}, {"yum"}, {"urpmi"}, {"pacman", "yum"},
     {"apt-get", "urpmi"}}

OverwriteChoices ==
    {AllFiles(AnsEnter), AllFiles(AnsY),
     [AllFiles(AnsN) EXCEPT ![ComposeYml] = <<AnsY>>]}

\* the answers to the questions of createConfiguration
SslChoices ==
    {[DefaultIn EXCEPT !.ssl = <<AnsN>>],
     [DefaultIn EXCEPT !.ssl = <<AnsY>>, !.useCertbot = <<AnsN>>,
                       !.useSnakeoil = <<AnsY>>, !.domains = <<DomainA>>],
     [DefaultIn EXCEPT !.ssl = <<AnsY>>, !.useCertbot = <<AnsN>>,
                       !.useSnakeoil = <<AnsN>>, !.domains = <<DomainA>>],
     [DefaultIn EXCEPT !.ssl = <<AnsY>>, !.useCertbot = <<AnsN>>,
                       !.useSnakeoil = <<AnsN>>, !.domains = <<DomainA>>,
                       !.cert = "root"],
     [DefaultIn EXCEPT !.ssl = <<AnsY>>, !.useCertbot = <<AnsY>>,
                       !.domains = <<DomainA>>],
     [DefaultIn EXCEPT !.ssl = <<AnsY>>, !.useCertbot = <<AnsY>>,
                       !.domains = <<DomainA>>, !.acquire = <<AnsN>>],
     [DefaultIn EXCEPT !.ssl = <<AnsY>>, !.useCertbot = <<AnsY>>,
                       !.domains = <<DomainA>>, !.gitlab = <<AnsY>>,
                       !.gitlabDomains = <<DomainA>>],
     [DefaultIn EXCEPT !.ssl = <<AnsY>>, !.useCertbot = <<AnsY>>,
                       !.domains = <<DomainA>>, !.fails = {CertonlyCmd}],
     [DefaultIn EXCEPT !.public = TRUE, !.domains = <<DomainA, DomainB>>],
     [DefaultIn EXCEPT !.yes = TRUE, !.public = TRUE],
     [DefaultIn EXCEPT !.yes = TRUE, !.cert = "none"]}

\* index.js asks none of the questions of createConfiguration
Questions == IF script = "index" THEN {} ELSE SslChoices

InstallIn ==
    {[DefaultIn EXCEPT !.yes = y, !.pkgs = p] :
        y \in BOOLEAN, p \in PkgChoices}
    \cup {[DefaultIn EXCEPT !.pkgs = {"apt-get"}, !.fails = f] :
             f \in {{"apt-get -y install docker.io"},
                    {"apt-get -y install docker-compose"},
                    {"docker-compose pull"}}}
    \cup {[DefaultIn EXCEPT !.pkgs = {"yum"},
                            !.fails = {"pip install docker-compose"}],
          [DefaultIn EXCEPT !.pkgs = {"pacman"},
                            !.fails = {"pacman --noconfirm -S docker"}],
          [DefaultIn EXCEPT !.pkgs = {"yum"},
                            !.fails = {"systemctl enable docker"}],
          [DefaultIn EXCEPT !.pkgs = {"apt-get"}, !.password = <<CtrlC>>],
          [DefaultIn EXCEPT !.pkgs = {"apt-get"}, !.confirmDocker = <<AnsN>>],
          [DefaultIn EXCEPT !.pkgs = {"apt-get"}, !.confirmCompose = <<AnsN>>]}
    \cup {[DefaultIn EXCEPT !.overwrite = o, !.password = <<pw>>] :
             o \in OverwriteChoices, pw \in {AnsEnter, Secret}}
    \cup {[i EXCEPT !.pkgs = {"apt-get"}] : i \in Questions}
    \cup {[DefaultIn EXCEPT !.root = FALSE],
          [DefaultIn EXCEPT !.access = FALSE]}

RenewIn ==
    {[DefaultIn EXCEPT !.prefix = p, !.renewed = r] :
        p \in Prefixes, r \in BOOLEAN}
    \cup {[DefaultIn EXCEPT !.fails = {RenewCmd}],
          [DefaultIn EXCEPT !.renewed = TRUE, !.fails = {"nginx reload"}],
          [DefaultIn EXCEPT !.root = FALSE],
          [DefaultIn EXCEPT !.access = FALSE]}

DomainArgs == {<<DomainA>>, <<DomainB>>, <<DomainA, DomainB>>}

DomainIn ==
    {[DefaultIn EXCEPT !.args = a, !.fails = f] :
        a \in DomainArgs, f \in {{}, {CertonlyCmd}}}
    \cup {[DefaultIn EXCEPT !.domains = <<DomainB>>],
          [DefaultIn EXCEPT !.args = <<DomainA>>, !.notify = <<AnsN>>],
          [DefaultIn EXCEPT !.args = <<DomainB>>, !.yes = TRUE],
          [DefaultIn EXCEPT !.root = FALSE, !.args = <<DomainA>>]}

\* the command line without a command
NoCommandIn ==
    {[DefaultIn EXCEPT !.help = h, !.version = v] :
        h \in BOOLEAN, v \in BOOLEAN}

\* words typed as a command: names of commands and other words
TypedNames == {"stop", "add", "status"}
\* which of their letters are capitals
TypedCaps == {{}, {1, 2, 3}}

TypedIn ==
    {[DefaultIn EXCEPT !.caps = k, !.args = <<DomainA>>] : k \in TypedCaps}

RequestIn ==
    {DefaultIn, [DefaultIn EXCEPT !.fails = {CertonlyCmd}],
     [DefaultIn EXCEPT !.config = EmptyFolder],
     [DefaultIn EXCEPT !.root = FALSE], [DefaultIn EXCEPT !.access = FALSE]}

-----------------------------------------------------------------------------
(* The state machine: one invocation of the script per step *)

OperatingSystems == {"Linux", "Darwin"}

\* a machine on which the script has not been run
Fresh(docker) ==
    [files |-> [f \in FileNames |-> NoFile], dockerInstalled |-> docker,
     composeInstalled |-> docker, images |-> {ForeignImage},
     containers |-> {ForeignContainer}, registry |-> NoRegistry,
     certTime |-> 0, log |-> <<>>]

\* the same machine after `trambar install`, every question answered with
\* the enter key
Installed(docker) ==
    install(script, Fresh(docker), [DefaultIn EXCEPT !.pkgs = {"apt-get"}]).c

\* the script has not been run yet, or has been run once to install Trambar.
\* A machine where part_002 is always given --dev starts without Trambar.
\* On systems other than Linux, where the script cannot install Docker,
\* Docker may be there already.  Of the scripts that know other systems,
\* part_004 is run on one
Init ==
    /\ script \in Scripts
    /\ os \in IF script = "p4" THEN OperatingSystems ELSE {"Linux"}
    /\ dev \in IF script = "p2" THEN BOOLEAN ELSE {FALSE}
    /\ \E docker \in IF os = "Linux" THEN {FALSE} ELSE BOOLEAN :
          \E c \in IF dev THEN {Fresh(docker)}
                   ELSE {Fresh(docker), Installed(docker)} :
             /\ files = c.files
             /\ dockerInstalled = c.dockerInstalled
             /\ composeInstalled = c.composeInstalled
             /\ images = c.images
             /\ containers = c.containers
             /\ registry = c.registry
             /\ certTime = c.certTime
    /\ runs = 0
    /\ last = NoProc

\* the process ends with result r: what it did to the machine stays, and
\* `last` records the invocation for the shell to see
Finish(command, in, r) ==
    /\ r.ret # "hang"
    /\ files' = r.c.files
    /\ dockerInstalled' = r.c.dockerInstalled
    /\ composeInstalled' = r.c.composeInstalled
    /\ images' = r.c.images
    /\ containers' = r.c.containers
    /\ registry' = r.c.registry
    /\ certTime' = r.c.certTime
    /\ last' = [cmd |-> command, in |-> in, ret |-> r.ret,
                exit |-> exitStatus(r.ret), log |-> r.c.log, before |-> Context]

\* the shell is at its prompt and the user has patience left
Ready == last = NoProc /\ runs < MaxRuns

\* the script loads and runs `command` to its end: the handler, then
\* process.exit
Run(command, in) ==
    Finish(command, in,
           main(script, guessServerName(script, Context, in), in, command))

Invoke(command, in) ==
    /\ runs' = runs + 1
    /\ \E given \in {[in EXCEPT !.dev = dev]} : Run(command, given)
    /\ UNCHANGED <<script, os, dev>>

Compose == Ready /\ \E in \in EditIn : Invoke("compose", in)
Env == Ready /\ \E in \in EditIn : Invoke("env", in)
Install == Ready /\ \E in \in InstallIn : Invoke("install", in)
Logs == Ready /\ \E in \in ContainerIn("docker-compose logs") : Invoke("logs", in)
Password == Ready /\ \E in \in PasswordIn : Invoke("password", in)
Restart ==
    Ready /\ \E in \in ContainerIn("docker-compose restart") : Invoke("restart", in)
Start == Ready /\ \E in \in ContainerIn("docker-compose up") : Invoke("start", in)
Stats == Ready /\ \E in \in StatsIn : Invoke("stats", in)
Stop == Ready /\ \E in \in ContainerIn("docker-compose down") : Invoke("stop", in)
Update == Ready /\ \E in \in UpdateIn : Invoke("update", in)
Uninstall == Ready /\ \E in \in UninstallIn : Invoke("uninstall", in)

\* the certificate commands exist in part_002 only
Add == Ready /\ script = "p2" /\ \E in \in DomainIn : Invoke("add", in)
List == Ready /\ script = "p2" /\ Invoke("list", DefaultIn)
Remove == Ready /\ script = "p2" /\ \E in \in DomainIn : Invoke("remove", in)
Renew == Ready /\ script = "p2" /\ \E in \in RenewIn : Invoke("renew", in)
Request == Ready /\ script = "p2" /\ \E in \in RequestIn : Invoke("request", in)

\* `trambar`, `trambar --help`, `trambar --version`
NoCommand == Ready /\ \E in \in NoCommandIn : Invoke("", in)

\* a command typed with capital letters, or a word that is no command
Typed ==
    Ready /\ \E name \in TypedNames : \E in \in TypedIn : Invoke(name, in)

\* the process is gone; the shell shows its prompt again
Exit ==
    /\ last # NoProc
    /\ last' = NoProc
    /\ UNCHANGED <<world, runs>>

Next ==
    \/ Compose
    \/ Env
    \/ Install
    \/ Logs
    \/ Password
    \/ Restart
    \/ Start
    \/ Stats
    \/ Stop
    \/ Update
    \/ Uninstall
    \/ Add
    \/ List
    \/ Remove
    \/ Renew
    \/ Request
    \/ NoCommand
    \/ Typed
    \/ Exit

Spec == Init /\ [][Next]_vars

-----------------------------------------------------------------------------
(* Reading the record of the invocation that just ended *)

\* a process has ended and the shell has not shown its prompt yet
Ran == last # NoProc

Did(command) == Ran /\ last.cmd = command

Steps == IF Ran THEN 1..Len(last.log) ELSE {}

\* an external program started through run() ended with a status other than 0
RunFailedAt(k) == last.log[k][1] = "run" /\ last.log[k][3] = "fail"

\* the external program `cmd` was started through run()
RanProgramAt(k, cmd) == last.log[k][1] = "run" /\ last.log[k][2] = cmd

\* docker-compose was started, whatever the operation
ComposePrograms ==
    {"docker-compose up", "docker-compose down", "docker-compose restart",
     "docker-compose pull", "docker-compose logs"}

\* `question` was put to the user, who typed an answer
AskedAt(k, question) == last.log[k][1] = "ask" /\ last.log[k][2] = question

\* the message was printed
PrintedAt(k, msg) == last.log[k][1] = "print" /\ last.log[k][2] = msg

\* the file was written
WroteAt(k, name) == last.log[k][1] = "write" /\ last.log[k][2] = name

\* what part_001 does while it loads, before it looks at the command
HostNameAt(k) == last.log[k] = <<"exec", "hostname", "">>


-----------------------------------------------------------------------------
(* C1: a failing external program and the exit status *)

\* C1: whenever an external program started through run() by a command ends
\* with a non-zero exit status, the process exits with a non-zero status, for
\* every subcommand
C1_FailedProgramFailsCommand ==
    Ran => ((\E k \in Steps : RunFailedAt(k)) => last.exit # ExitOK)

\* `trambar stats` on a running deployment, docker stats ending with an
\* error: the process exits with status 0
C1_StatsFailedExitsZero ==
    /\ Did("stats")
    /\ \E k \in Steps : RunFailedAt(k) /\ RanProgramAt(k, "docker stats")
    /\ last.exit = ExitOK

\* `trambar renew` with certbot ending with an error: the process exits
\* with status 0
C1_RenewFailedExitsZero ==
    /\ Did("renew")
    /\ \E k \in Steps : RunFailedAt(k) /\ RanProgramAt(k, RenewCmd)
    /\ last.exit = ExitOK

-----------------------------------------------------------------------------
(* C2: the exit status of a command that succeeded *)

\* no check of the handler failed and no external program it started ended
\* with an error; compose, env and list check at most for root access and
\* start at most the editor
NothingFailed ==
    \A k \in Steps :
       /\ ~RunFailedAt(k)
       /\ ~PrintedAt(k, "Root access required")
       /\ last.log[k][1] # "throw"

\* C2: when the checks and all operations of compose, env or list succeed,
\* the process exits with status 0
C2_SucceededExitsZero ==
    (Ran /\ last.cmd \in {"compose", "env", "list"} /\ NothingFailed)
        => last.exit = ExitOK

\* `trambar compose` by root, the editor ending with status 0: the process
\* exits with status 255
C2_ComposeEditedExitsNonZero ==
    /\ Did("compose")
    /\ \E k \in Steps : RanProgramAt(k, "editor") /\ ~RunFailedAt(k)
    /\ NothingFailed
    /\ last.exit = ExitFail

-----------------------------------------------------------------------------
(* C3: the order of the steps of install *)

\* `program --version` was run to see whether the program is installed
LookedForAt(k, program) ==
    /\ last.log[k][1] = "exec"
    /\ last.log[k][2] = program
    /\ last.log[k][3] = "--version"

PulledAt(k) == RanProgramAt(k, "docker-compose pull")

WroteConfigAt(k) == \E f \in FileNames : WroteAt(k, f)

\* the root check passed
RootCheckPassed == last.in.root \/ (script \in {"p4", "p2"} /\ os # "Linux")

\* C3 as stated: install creates the configuration after Docker and Docker
\* Compose are installed, so no configuration file is written when Docker or
\* Docker Compose is absent and cannot be installed
C3_NoConfigWithoutDocker ==
    (Did("install") /\ ~(dockerInstalled /\ composeInstalled))
        => \A k \in Steps : ~WroteConfigAt(k)

\* C3: install checks for root first, looks for Docker before Docker Compose
\* and pulls the images only after the root check passed, both programs are
\* installed and the configuration exists; index.js writes the configuration
\* after both programs are installed, the later scripts before they look for
\* Docker; install never starts containers (before install is called,
\* part_001 has asked the machine for its host name while loading)
C3_InstallOrder ==
    Did("install") =>
        /\ containers = last.before.containers
        /\ \A k \in Steps : ~RanProgramAt(k, "docker-compose up")
        /\ ~RootCheckPassed =>
              \A k \in Steps :
                 \/ last.log[k][1] = "print"
                 \/ script = "p1" /\ k = 1 /\ HostNameAt(k)
        /\ \A k \in Steps : PulledAt(k) =>
              /\ RootCheckPassed
              /\ dockerInstalled /\ composeInstalled
              /\ files[ComposeYml] # NoFile /\ files[EnvFile] # NoFile
              /\ \E i, j \in 1..k :
                    i < j /\ LookedForAt(i, "docker")
                          /\ LookedForAt(j, "docker-compose")
              /\ \A j \in Steps : WroteConfigAt(j) => j < k
        /\ script = "index" =>
              \A k \in Steps : WroteConfigAt(k) =>
                 /\ dockerInstalled /\ composeInstalled
                 /\ \E j \in 1..k : LookedForAt(j, "docker-compose")
        /\ script # "index" =>
              \A k, j \in Steps :
                 (WroteConfigAt(k) /\ LookedForAt(j, "docker")) => k < j

\* install on a machine without Docker installs Docker and Docker Compose,
\* writes the configuration and pulls the images
C3_InstalledAndPulled ==
    /\ Did("install")
    /\ ~last.before.dockerInstalled
    /\ last.exit = ExitOK
    /\ \E k \in Steps : PulledAt(k) /\ ~RunFailedAt(k)
    /\ \E k \in Steps : WroteAt(k, ComposeYml)

-----------------------------------------------------------------------------
(* C4: docker-compose and the configuration files *)

\* docker-compose.yml or .env is missing from the configuration folder when
\* the command starts
ConfigurationMissing ==
    \/ ConfigFiles(last.before, last.in)[ComposeYml] = NoFile
    \/ ConfigFiles(last.before, last.in)[EnvFile] = NoFile

ComposeStartedAt(k) == \E p \in ComposePrograms : RanProgramAt(k, p)

\* C4: start, stop, restart, update, logs and uninstall invoke no
\* docker-compose operation when docker-compose.yml or .env is missing
C4_NoComposeWithoutConfiguration ==
    (/\ Ran
     /\ last.cmd \in {"start", "stop", "restart", "update", "logs", "uninstall"}
     /\ ConfigurationMissing)
        => \A k \in Steps : ~ComposeStartedAt(k)

\* `trambar logs -c <folder>` with a folder that holds no configuration,
\* while Trambar containers run: docker-compose logs is started
C4_LogsWithoutConfiguration ==
    /\ Did("logs")
    /\ ConfigurationMissing
    /\ \E k \in Steps : RanProgramAt(k, "docker-compose logs")

\* `trambar uninstall -c <folder>` likewise starts docker-compose down
C4_UninstallWithoutConfiguration ==
    /\ Did("uninstall")
    /\ ConfigurationMissing
    /\ \E k \in Steps : RanProgramAt(k, "docker-compose down")

-----------------------------------------------------------------------------
(* C5: install and the files that exist already *)

\* the invocation replaced the content of a file that existed when it started
Overwritten(f) ==
    /\ last.before.files[f] # NoFile
    /\ files[f].content # last.before.files[f].content

\* the user was asked whether to overwrite the file and answered yes
AnsweredYes(answers) ==
    \E a \in SeqToSet(answers) : trim(a) # <<>> /\ trim(a)[1] \in {"y", "Y"}

ConfirmedOverwrite(f) ==
    /\ \E k \in Steps : AskedAt(k, Overwrite(f))
    /\ AnsweredYes(last.in.overwrite[f])

\* C5: install overwrites an existing configuration file only if the user
\* was asked about that file and answered yes
C5_OverwriteOnlyConfirmed ==
    Did("install") =>
        \A f \in FileNames : Overwritten(f) => ConfirmedOverwrite(f)

\* `trambar install` of index.js, run interactively on an installed
\* machine: docker-compose.yml is replaced and no question about it is asked
C5_OverwrittenUnasked ==
    /\ Did("install")
    /\ script = "index"
    /\ ~last.in.yes
    /\ Overwritten(ComposeYml)
    /\ \A k \in Steps : ~AskedAt(k, Overwrite(ComposeYml))

-----------------------------------------------------------------------------
(* C6: uninstall and the configuration files *)

\* the file is in the configuration folder the invocation worked on
StillThere(f) == ConfigFiles(Context, last.in)[f] # NoFile

\* C6: after a successful uninstall docker-compose.yml, .env and
\* trambar.htpasswd no longer exist
C6_UninstallDeletesConfiguration ==
    (Did("uninstall") /\ last.exit = ExitOK)
        => \A f \in {ComposeYml, EnvFile, PasswdFile} : ~StillThere(f)

\* `trambar uninstall` of a later script on an installed machine: the images
\* are removed, the process exits with status 0 and the three files are
\* still there
C6_UninstalledConfigurationKept ==
    /\ Did("uninstall")
    /\ script # "index"
    /\ last.exit = ExitOK
    /\ \E k \in Steps : last.log[k][1] = "rmi" /\ last.log[k][3] = "ok"
    /\ \A f \in {ComposeYml, EnvFile, PasswdFile} : StillThere(f)

\* `trambar uninstall` of index.js on an installed machine deletes them
C6_UninstalledConfigurationGone ==
    /\ Did("uninstall")
    /\ script = "index"
    /\ last.exit = ExitOK
    /\ \A f \in {ComposeYml, EnvFile, PasswdFile} :
          last.before.files[f] # NoFile /\ ~StillThere(f)

-----------------------------------------------------------------------------
(* C7: the images uninstall removes *)

\* the local images of Trambar when the command starts
TrambarImages == {i \in last.before.images : IsTrambar(i.Repository)}

\* docker rmi was started for the image
RemovalRequested(id) ==
    \E k \in Steps : last.log[k][1] = "rmi" /\ last.log[k][2] = id

Removed(id) ==
    \E k \in Steps :
       last.log[k][1] = "rmi" /\ last.log[k][2] = id /\ last.log[k][3] = "ok"

\* uninstall came as far as listing the images
ListedImages ==
    \E k \in Steps : last.log[k][1] = "exec" /\ last.log[k][3] = "images"

\* C7: uninstall, once it comes to removing images, requests the removal of
\* every local image whose repository begins with trambar/ and of no other,
\* and it succeeds only if every one of those removals succeeded
C7_RemovesEveryTrambarImage ==
    Did("uninstall") =>
        /\ ListedImages => \A i \in TrambarImages : RemovalRequested(i.ID)
        /\ \A i \in last.before.images :
              RemovalRequested(i.ID) => i \in TrambarImages
        /\ last.exit = ExitOK => \A i \in TrambarImages : Removed(i.ID)

\* `trambar uninstall` by root while the Docker daemon does not answer: the
\* process exits with status 0 and the Trambar images are still there
C7_UninstalledNothingRemoved ==
    /\ Did("uninstall")
    /\ last.exit = ExitOK
    /\ TrambarImages # {}
    /\ TrambarImages \subseteq images

\* with two Trambar images, the first removal failing: the removal of the
\* second is not requested
C7_RemovalStoppedEarly ==
    /\ Did("uninstall")
    /\ \E i, j \in TrambarImages :
          /\ RemovalRequested(i.ID) /\ ~Removed(i.ID)
          /\ ~RemovalRequested(j.ID)
    /\ last.exit # ExitOK

-----------------------------------------------------------------------------
(* C8: the password command and the credential file *)

\* the first line typed at the password prompt that is not empty
RECURSIVE FirstTyped(_)
FirstTyped(answers) ==
    IF answers = <<>> THEN Undefined
    ELSE IF trim(Head(answers)) # <<>> THEN trim(Head(answers))
    ELSE FirstTyped(Tail(answers))

\* C8: every run of password by root on an installed configuration writes
\* the credential file, with the hash of the password typed at the prompt,
\* whether or not the file exists and whether or not --yes is given
C8_PasswordRewritesCredentials ==
    (Did("password") /\ RootCheckPassed /\ ~ConfigurationMissing) =>
        /\ \E k \in Steps : WroteAt(k, PasswdFile)
        /\ ~last.in.yes =>
              files[PasswdFile].content = PasswdText(FirstTyped(last.in.password))

\* `trambar password --yes` by root on an installed configuration: nothing
\* is written and the process exits with status 255
C8_YesWritesNothing ==
    /\ Did("password")
    /\ RootCheckPassed /\ ~ConfigurationMissing
    /\ last.in.yes
    /\ \A k \in Steps : ~WroteAt(k, PasswdFile)
    /\ files[PasswdFile] = last.before.files[PasswdFile]
    /\ last.exit = ExitFail

\* `trambar password` of a later script, a password typed and the question
\* 'Overwrite trambar.htpasswd?' answered with the enter key: the file keeps
\* the old hash
C8_DeclinedKeepsOldHash ==
    /\ Did("password")
    /\ RootCheckPassed /\ ~ConfigurationMissing
    /\ ~last.in.yes
    /\ \E k \in Steps : AskedAt(k, Overwrite(PasswdFile))
    /\ files[PasswdFile] = last.before.files[PasswdFile]
    /\ files[PasswdFile].content # PasswdText(FirstTyped(last.in.password))
    /\ last.exit = ExitFail

\* `trambar password` of index.js replaces the hash
C8_NewHashWritten ==
    /\ Did("password")
    /\ script = "index"
    /\ last.before.files[PasswdFile] # NoFile
    /\ files[PasswdFile].content # last.before.files[PasswdFile].content
    /\ files[PasswdFile].content = PasswdText(FirstTyped(last.in.password))
    /\ last.exit = ExitOK

-----------------------------------------------------------------------------
(* C9: the prompt helpers under --yes *)

\* the question was printed at step k and the file written afterwards
OverwroteAfterQuestion(k, f) ==
    /\ PrintedAt(k, Overwrite(f))
    /\ \E j \in Steps : j > k /\ WroteAt(j, f)

\* C9 as stated: with --yes confirm returns its default, so the question
\* 'Overwrite <file>?', whose default is No, leaves the file as it is
C9_YesConfirmReturnsDefault ==
    (Ran /\ last.in.yes) =>
        \A f \in FileNames : \A k \in Steps :
           PrintedAt(k, Overwrite(f)) => ~OverwroteAfterQuestion(k, f)

\* C9: with --yes no prompt helper reads input; confirm answers yes whatever
\* its default ('Set up SSL?' and 'Overwrite <file>?' have the default No),
\* the password prompt returns its default (the default password at install,
\* nothing at the password command), and the path prompt returns its default
\* (nothing, when no certificate is found, which ends install)
C9_YesAnswersYes ==
    (Ran /\ last.in.yes) =>
        /\ \A k \in Steps : last.log[k][1] # "ask"
        /\ \A f \in FileNames : \A k \in Steps :
              PrintedAt(k, Overwrite(f)) => OverwroteAfterQuestion(k, f)
        /\ script = "p1" =>
              \A k \in Steps :
                 PrintedAt(k, "Set up SSL?") =>
                    k < Len(last.log) /\ PrintedAt(k + 1, "Server domain name")
        /\ Did("install") =>
              \A k \in Steps :
                 WroteAt(k, PasswdFile) =>
                    files[PasswdFile].content = PasswdText(<<defaultPassword>>)
        /\ Did("password") => \A k \in Steps : last.log[k][1] # "write"
        /\ last.in.cert = "none" =>
              \A k \in Steps :
                 PrintedAt(k, "Full path of private key") =>
                    /\ \A j \in Steps : last.log[j][1] # "write"
                    /\ last.exit # ExitOK

\* `trambar install --yes` on an installed machine: the question about
\* docker-compose.yml is printed, not asked, and the file is replaced
C9_YesOverwrote ==
    /\ Did("install")
    /\ last.in.yes
    /\ \E k \in Steps : OverwroteAfterQuestion(k, ComposeYml)
    /\ Overwritten(ComposeYml)
    /\ files[PasswdFile].content = PasswdText(<<defaultPassword>>)

\* `trambar install --yes` where no certificate is found: the path prompts
\* hand back nothing and install fails before it writes a file
C9_YesNoCertificate ==
    /\ Did("install")
    /\ last.in.yes
    /\ last.in.cert = "none"
    /\ \E k \in Steps : PrintedAt(k, "Full path of private key")
    /\ last.exit # ExitOK

-----------------------------------------------------------------------------
(* C10: update *)

UpAt(k) == RanProgramAt(k, "docker-compose up")

\* the containers of the deployment the command was given the prefix of
OwnDeployment == Deployment(prefixOf(last.in))

\* containers are recreated only after a successful pull, never before it
UpOnlyAfterPull ==
    /\ \A k \in Steps : UpAt(k) => \E j \in 1..k : PulledAt(j) /\ ~RunFailedAt(j)
    /\ \A k \in Steps : PulledAt(k) => \A j \in 1..k : ~UpAt(j)

\* C10: update recreates the containers only after a successful pull, never
\* before it; it restarts a deployment that was running, and a deployment
\* that was not running when update started is not started by update
C10_UpdateRestartsOnlyRunning ==
    Did("update") =>
        /\ UpOnlyAfterPull
        /\ (last.exit = ExitOK /\ OwnDeployment \subseteq last.before.containers)
              => \E k \in Steps : UpAt(k) /\ ~RunFailedAt(k)
        /\ OwnDeployment \cap last.before.containers = {}
              => /\ OwnDeployment \cap containers = {}
                 /\ \A k \in Steps : ~UpAt(k)

\* the part that holds in every script: the order of pull and up
C10_UpdateOrder == Did("update") => UpOnlyAfterPull

\* `trambar update` while only the deployment of another prefix is running:
\* the deployment of the default prefix, which was not running, is started
C10_UpdateStartedStopped ==
    /\ Did("update")
    /\ OwnDeployment \cap last.before.containers = {}
    /\ OwnDeployment \subseteq containers
    /\ last.exit = ExitOK

-----------------------------------------------------------------------------
(* C11: commands that need root, run by another user on Linux *)

RootCommands == {"install", "uninstall", "password", "compose", "env"}

\* one of these commands has been run on Linux by a user who is not root
NotRoot == Ran /\ os = "Linux" /\ ~last.in.root /\ last.cmd \in RootCommands

\* every file is what it was when the script was started
FilesUntouched ==
    /\ files = last.before.files
    /\ registry = last.before.registry
    /\ certTime = last.before.certTime
    /\ \A k \in Steps : last.log[k][1] \notin {"write", "unlink"}

\* an external program was started, through run() or otherwise
StartedProgramAt(k) == last.log[k][1] \in {"run", "exec"}

\* C11 as stated: the command writes or deletes no file, asks no question,
\* starts no external program, and reports failure
C11_NotRootStartsNothing ==
    NotRoot =>
        /\ FilesUntouched
        /\ \A k \in Steps : last.log[k][1] # "ask" /\ ~StartedProgramAt(k)
        /\ last.exit # ExitOK

\* C11: the command writes or deletes no file, asks no question, reports
\* failure, and its handler starts no external program; the only program
\* started is `hostname`, which part_001 runs while loading when
\* /etc/letsencrypt/live gives it no name.  Docker, the images and the
\* containers are as before
C11_NotRootDoesNothing ==
    NotRoot =>
        /\ FilesUntouched
        /\ images = last.before.images
        /\ containers = last.before.containers
        /\ dockerInstalled = last.before.dockerInstalled
        /\ composeInstalled = last.before.composeInstalled
        /\ \A k \in Steps :
              \/ PrintedAt(k, "Root access required")
              \/ script = "p1" /\ k = 1 /\ ~last.in.live /\ HostNameAt(k)
        /\ last.exit = ExitFail

\* `trambar uninstall` by an ordinary user on a machine where Trambar is
\* installed: refused, the configuration is still there
C11_NotRootRefused ==
    /\ NotRoot
    /\ last.cmd = "uninstall"
    /\ last.before.files[ComposeYml] # NoFile
    /\ \E k \in Steps : PrintedAt(k, "Root access required")
    /\ last.exit = ExitFail

\* part_001 started by an ordinary user: `hostname` has been run
C11_NotRootRanHostName ==
    NotRoot /\ script = "p1" /\ \E k \in Steps : HostNameAt(k)

-----------------------------------------------------------------------------
(* C12: the prefix and the running deployment *)

PrefixCommands == {"stop", "restart", "logs", "update"}

\* `docker ps` answered, so isRunning had a list to look at
ListedProcesses ==
    \E k \in Steps : last.log[k] = <<"exec", "docker", "ps", "ok">>

SaidNotRunning ==
    \E k \in Steps : PrintedAt(k, "Trambar is not currently running")

\* containers of the deployment of the given prefix were running when the
\* command started
OwnRunning == OwnDeployment \cap last.before.containers # {}

\* docker-compose was started to act on containers
ContainerOperationAt(k) ==
    \E cmd \in {"docker-compose up", "docker-compose down",
                "docker-compose restart", "docker-compose logs"} :
       RanProgramAt(k, cmd)

\* C12: isRunning is true exactly when containers created under the given
\* prefix are running, so stop, restart, logs and update do not act when
\* only a deployment of another prefix runs, and logs, like start, reaches
\* docker-compose with the given prefix when its own deployment runs
C12_PrefixDecidesRunning ==
    (Ran /\ last.cmd \in PrefixCommands) =>
        /\ (last.cmd # "update" /\ ListedProcesses) =>
              (SaidNotRunning <=> ~OwnRunning)
        /\ ~OwnRunning =>
              /\ \A k \in Steps : ~ContainerOperationAt(k)
              /\ containers = last.before.containers
        /\ (Did("logs") /\ OwnRunning /\ ListedProcesses
                /\ last.in.config = "") =>
              \E k \in Steps : RanProgramAt(k, "docker-compose logs")

\* `trambar stop -p alt` while only the deployment of the default prefix
\* runs: docker-compose down is started for a deployment that is not running
C12_StoppedOtherPrefix ==
    /\ Did("stop")
    /\ ~OwnRunning
    /\ \E k \in Steps : RanProgramAt(k, "docker-compose down")
    /\ last.exit = ExitOK

\* `trambar logs` of part_002 while its deployment runs: the script ends
\* with a ReferenceError and docker-compose logs is never started
C12_LogsThrew ==
    /\ Did("logs")
    /\ OwnRunning
    /\ script = "p2"
    /\ \E k \in Steps : last.log[k] = <<"throw", "ReferenceError">>
    /\ \A k \in Steps : ~RanProgramAt(k, "docker-compose logs")
    /\ last.exit = ExitUncaught

-----------------------------------------------------------------------------
(* C13: add and remove *)

\* the names given to add or remove: the words after the command, or the
\* names typed when there are none
GivenNames ==
    IF last.in.args # <<>> THEN last.in.args ELSE last.in.domains

PreviousList == last.before.registry.domains

\* the given names that the previous list does not hold
NewNames ==
    LET IsNew(x) == x \notin SeqToSet(PreviousList)
    IN SelectSeq(GivenNames, IsNew)

\* the previous list without the given names
Remaining ==
    LET Stays(x) == x \notin SeqToSet(GivenNames)
    IN SelectSeq(PreviousList, Stays)

\* add or remove has rewritten a registry that was there
Rewrote(command) ==
    /\ Did(command)
    /\ last.before.registry.exists
    /\ \E k \in Steps : WroteAt(k, CertbotJson)

ContactKept ==
    /\ registry.email = last.before.registry.email
    /\ registry.notification = last.before.registry.notification

\* C13: add sets the list to the previous list followed by the given names
\* not in it, remove sets it to the previous list without the given names,
\* both keep the contact e-mail and the notification setting; adding names
\* already present changes nothing, and removing names that were all new
\* when added gives the previous list back
C13_AddUnionRemoveDifference ==
    /\ Rewrote("add") =>
          /\ registry.domains = PreviousList \o NewNames
          /\ ContactKept
          /\ NewNames = <<>> => registry = last.before.registry
          /\ NewNames = GivenNames =>
                difference(registry.domains, GivenNames) = PreviousList
    /\ Rewrote("remove") =>
          /\ registry.domains = Remaining
          /\ ContactKept

\* `trambar add a.org` where the registry lists a.org twice: the name was
\* present, and the list has changed
C13_AddedPresentNameChangedList ==
    /\ Rewrote("add")
    /\ NewNames = <<>>
    /\ registry.domains # PreviousList

\* `trambar add b.org` where the registry lists a.org: b.org is appended
C13_Appended ==
    /\ Rewrote("add")
    /\ PreviousList = <<DomainA>>
    /\ registry.domains = <<DomainA, DomainB>>

\* `trambar remove a.org` where the registry lists a.org: the list is empty
C13_Removed ==
    /\ Rewrote("remove")
    /\ PreviousList # <<>>
    /\ registry.domains = <<>>

-----------------------------------------------------------------------------
(* C14: the permissions of .env *)

\* install has written .env
InstallWroteEnv == Did("install") /\ \E k \in Steps : WroteAt(k, EnvFile)

C14_EnvIsPrivateUnlessDev ==
    (InstallWroteEnv /\ ~last.in.dev) => files[EnvFile].mode = Mode0600

C14_EnvWrittenPrivate ==
    InstallWroteEnv /\ ~last.in.dev /\ files[EnvFile].mode = Mode0600

-----------------------------------------------------------------------------
(* C15: --help *)

\* the machine is as it was when the script was started
MachineUntouched ==
    /\ FilesUntouched
    /\ images = last.before.images
    /\ containers = last.before.containers
    /\ dockerInstalled = last.before.dockerInstalled
    /\ composeInstalled = last.before.composeInstalled

\* what a handler does: questions, programs, files, images
HandlerStepAt(k) ==
    /\ last.log[k][1] \in {"ask", "run", "exec", "write", "unlink", "rmi", "throw"}
    /\ ~HostNameAt(k)

\* C15: with --help the usage guide is printed and no subcommand is
\* executed, whether or not a subcommand is named
C15_HelpPrintsUsageOnly ==
    (Ran /\ last.in.help) =>
        /\ \E k \in Steps : PrintedAt(k, "usage")
        /\ \A k \in Steps : ~HandlerStepAt(k)
        /\ MachineUntouched

\* the same for a command line without a command and without --version
C15_HelpAloneIsUsage ==
    (Ran /\ last.in.help /\ last.cmd = "" /\ ~last.in.version) =>
        /\ \E k \in Steps : PrintedAt(k, "usage")
        /\ \A k \in Steps : ~HandlerStepAt(k)
        /\ MachineUntouched
        /\ last.exit = ExitOK

\* `trambar --help uninstall` on a machine where Trambar is installed: no
\* usage guide, and uninstall has done its work
C15_HelpUninstalled ==
    /\ Did("uninstall")
    /\ last.in.help
    /\ \A k \in Steps : ~PrintedAt(k, "usage")
    /\ \E k \in Steps : last.log[k][1] = "rmi"
    /\ images # last.before.images

\* `trambar --help --version`: the version is printed, not the usage guide
C15_HelpWithVersion ==
    /\ Did("")
    /\ last.in.help
    /\ \E k \in Steps : PrintedAt(k, "Trambar version")
    /\ \A k \in Steps : ~PrintedAt(k, "usage")

\* `trambar --help`: the usage guide
C15_HelpAlone ==
    Did("") /\ last.in.help /\ \E k \in Steps : PrintedAt(k, "usage")

-----------------------------------------------------------------------------
(* C16: the word given as command *)

\* the names runCommand has a case for
KnownCommands ==
    {"compose", "env", "install", "logs", "password", "restart", "start",
     "stats", "stop", "update", "uninstall"}
    \cup IF script = "p2" THEN {"add", "list", "remove", "renew", "request"}
         ELSE {}

\* a word was given as command and it is not the name of one
GaveUnknownWord == Ran /\ last.cmd # "" /\ last.cmd \notin KnownCommands

\* a name of a command was given, in whatever letter case
GaveKnownName == Ran /\ last.cmd \in KnownCommands

SaidUnknownAt(k) == PrintedAt(k, "Unknown command")

\* what the handler of the command does when called with the same options
\* on the same machine
OfHandler ==
    switch(script, guessServerName(script, last.before, last.in), last.in,
           last.cmd)

C16_UnknownRefused ==
    /\ Did("status")
    /\ last.in.caps = {}
    /\ \E k \in Steps : SaidUnknownAt(k)
    /\ last.exit = ExitFail

\* `trambar add a.org` given to a script that has no certificate commands
C16_AddUnknownBeforePart002 ==
    Did("add") /\ script = "index" /\ \E k \in Steps : SaidUnknownAt(k)

-----------------------------------------------------------------------------
(* C17: stop, restart, logs and stats while Trambar is not running *)

RunningCommands == {"stop", "restart", "logs", "stats"}

\* no container made from a trambar image was running when the command
\* started
NothingRunning == \A p \in last.before.containers : ~IsTrambar(p.Image)

\* docker-compose down, restart or logs, or docker stats, was started
OperationAt(k) ==
    \E cmd \in {"docker-compose down", "docker-compose restart",
                "docker-compose logs", "docker stats"} : RanProgramAt(k, cmd)

\* C17: when no Trambar container is running, stop, restart, logs and stats
\* start no container operation, leave the containers as they are and
\* report failure
C17_NotRunningNoOperation ==
    (Ran /\ last.cmd \in RunningCommands /\ NothingRunning) =>
        /\ \A k \in Steps : ~OperationAt(k)
        /\ containers = last.before.containers
        /\ last.exit # ExitOK

\* `trambar stop` on an installed machine where Trambar is not running: the
\* script says so and fails
C17_StopRefused ==
    /\ Did("stop")
    /\ NothingRunning
    /\ SaidNotRunning
    /\ last.exit = ExitFail

-----------------------------------------------------------------------------
(* C18: the order of uninstall *)

DownAt(k) == RanProgramAt(k, "docker-compose down")
RmiAt(k) == last.log[k][1] = "rmi"
UnlinkAt(k) == last.log[k][1] = "unlink"

\* stopping the containers failed, or the removal of an image failed
StopOrRemovalFailed ==
    \/ \E k \in Steps : DownAt(k) /\ RunFailedAt(k)
    \/ \E k \in Steps : RmiAt(k) /\ last.log[k][3] = "fail"

\* C18: uninstall stops running containers before it removes any image and
\* removes images before it deletes any configuration file; when stopping
\* the containers or the removal of an image fails, no configuration file
\* is deleted
C18_UninstallOrder ==
    Did("uninstall") =>
        /\ \A k \in Steps : RmiAt(k) => \A j \in Steps : DownAt(j) => j < k
        /\ \A k \in Steps :
              UnlinkAt(k) => \A j \in Steps : (DownAt(j) \/ RmiAt(j)) => j < k
        /\ (OwnRunning /\ ListedProcesses
                /\ \E k \in Steps : RmiAt(k) \/ UnlinkAt(k)) =>
              /\ \E j \in Steps : DownAt(j) /\ ~RunFailedAt(j)
              /\ OwnDeployment \cap containers = {}
        /\ StopOrRemovalFailed =>
              /\ \A k \in Steps : ~UnlinkAt(k)
              /\ files = last.before.files
              /\ last.exit # ExitOK

\* `trambar uninstall` of index.js while Trambar runs: the containers are
\* stopped, then an image is removed, then the configuration is deleted
C18_StoppedRemovedDeleted ==
    /\ Did("uninstall")
    /\ \E i, j, k \in Steps :
          /\ i < j /\ j < k
          /\ DownAt(i) /\ ~RunFailedAt(i)
          /\ RmiAt(j) /\ last.log[j][3] = "ok"
          /\ UnlinkAt(k) /\ last.log[k][3] = "ok"
    /\ files[ComposeYml] = NoFile
    /\ last.exit = ExitOK

\* an image could not be removed: the configuration is still there
C18_RemovalFailedConfigurationKept ==
    /\ Did("uninstall")
    /\ script = "index"
    /\ \E k \in Steps : RmiAt(k) /\ last.log[k][3] = "fail"
    /\ files[ComposeYml] # NoFile
    /\ last.exit = ExitFail

-----------------------------------------------------------------------------
(* C19: deleting the configuration *)

\* the files destroyConfiguration deletes
Configuration == {ComposeYml, EnvFile, PasswdFile}

\* destroyConfiguration was called and reported failure: a deletion threw
DestroyFailed ==
    /\ Did("uninstall")
    /\ \E k \in Steps : UnlinkAt(k) /\ last.log[k][3] = "fail"

\* C19: when destroyConfiguration reports failure, docker-compose.yml, .env
\* and trambar.htpasswd are each as they were before the call
C19_DestroyAllOrNothing ==
    DestroyFailed =>
        \A f \in Configuration : files[f] = last.before.files[f]

\* `trambar uninstall` where trambar.htpasswd is missing: docker-compose.yml
\* and .env are deleted, then uninstall fails
C19_HalfDeleted ==
    /\ DestroyFailed
    /\ last.before.files[ComposeYml] # NoFile
    /\ files[ComposeYml] = NoFile
    /\ files[EnvFile] = NoFile
    /\ last.exit = ExitFail

-----------------------------------------------------------------------------
(* C20: the credential file *)

\* the text is one line `root:$2y$...` made from the password
EntryOf(text, password) ==
    /\ text = <<"root", ":", "$2y$", "10$">> \o password \o <<"\n">>
    /\ Cardinality({i \in DOMAIN text : text[i] = "\n"}) = 1

\* the passwords there are: the default and what the user may type
Passwords == {<<defaultPassword>>, Secret}

\* no password reached the save: --yes hands the password command a default
\* that was never given
PasswordMissing == Did("password") /\ last.in.yes

\* C20: the credential file, whenever it exists, holds exactly one entry, for
\* root, with the '$2y$' prefix and made from a password that is not empty;
\* a missing password writes nothing and the command reports failure
C20_OneRootEntry ==
    /\ files[PasswdFile] # NoFile =>
          \E password \in Passwords :
             /\ password # <<>>
             /\ EntryOf(files[PasswdFile].content, password)
    /\ PasswordMissing =>
          /\ \A k \in Steps : ~WroteAt(k, PasswdFile)
          /\ files[PasswdFile] = last.before.files[PasswdFile]
          /\ last.exit # ExitOK

\* `trambar password` with a password typed: the file holds its entry
C20_TypedPasswordSaved ==
    /\ Did("password")
    /\ \E k \in Steps : WroteAt(k, PasswdFile)
    /\ EntryOf(files[PasswdFile].content, Secret)
    /\ last.exit = ExitOK

\* `trambar password --yes` on an installed machine: nothing to save
C20_NothingToSave ==
    /\ PasswordMissing
    /\ RootCheckPassed
    /\ last.before.files[PasswdFile] # NoFile
    /\ files[PasswdFile] = last.before.files[PasswdFile]
    /\ last.exit = ExitFail

-----------------------------------------------------------------------------
(* The prompt helpers on their own: one call of a helper per step *)

\* lines typed at one question before the user gives up
MaxLines == 2

\* lines a user may type at a yes/no question
TypableYesNo ==
    {<<>>, <<" ">>, <<"y">>, <<" ", "Y", "es">>, <<"n", " ">>, <<"N", "o">>,
     <<"x">>, <<"o", "y">>}

\* what the user types at one question, line after line
Lines(typable) == UNION {[1..n -> typable] : n \in 1..MaxLines}

\* the defaults the callers of confirm pass: index.js none; part_001 none or
\* false; part_004 true, false or none (installDockerCompose); part_002 true
\* or false
DefaultsPassed(s) ==
    CASE s = "index" -> {"undefined"}
      [] s = "p1" -> {"undefined", "false"}
      [] s = "p4" -> {"true", "false", "undefined"}
      [] OTHER -> {"true", "false"}

\* the helper has returned r: `last` records the call
Answered(call, in, def, answers, r) ==
    /\ r.ret # "hang"
    /\ last' = [cmd |-> call, in |-> in, def |-> def, answers |-> answers,
                ret |-> r.ret, log |-> r.c.log,
                val |-> IF "val" \in DOMAIN r THEN r.val ELSE NoPort]
    /\ UNCHANGED <<world, runs>>

\* confirm(question, def), with and without --yes
Confirm ==
    /\ last = NoProc
    /\ \E yes \in BOOLEAN, def \in DefaultsPassed(script),
          answers \in Lines(TypableYesNo) :
          \E in \in {[DefaultIn EXCEPT !.yes = yes]} :
             Answered("confirm", in, def, answers,
                      confirm(script, Context, in, "Go on?", def, answers))

\* lines a user may type when asked for a port
TypablePort ==
    {<<>>, <<"80">>, <<" ", "443">>, <<"8080">>, <<"80", "abc">>, <<"abc">>}

\* the defaults the callers of promptForPort pass
DefaultPorts == {80, 443}

\* what netstat may list as listening, and whether it can be run
NetstatIn ==
    {[DefaultIn EXCEPT !.yes = yes, !.listening = busy, !.fails = f] :
        yes \in BOOLEAN, busy \in {{}, {80}, {443, 8080}},
        f \in {{}, {"netstat"}}}

\* promptForPort(question, def); index.js has no such helper
PromptForPort ==
    /\ last = NoProc
    /\ script # "index"
    /\ \E in \in NetstatIn, def \in DefaultPorts,
          answers \in Lines(TypablePort) :
          Answered("promptForPort", in, def, answers,
                   promptForPort(script, Context, in, "HTTP port:", def,
                                 answers))

\* http_port and https_port of the config object before the questions
DefaultHttpPort(in) == IF pub(in) \/ in.dev THEN 80 ELSE 8080
DefaultHttpsPort(in) == IF pub(in) \/ in.dev THEN 443 ELSE 8443

\* the address written as gitlab_external_url, in its parts: protocol,
\* '://' + domain, and ':' + port where a port is appended (NoPort where
\* none is)
gitlabExternalUrl(ssl, https_port, http_port, domain) ==
    [protocol |-> IF ssl THEN "https" ELSE "http",
     domain |-> domain,
     port |-> IF ssl /\ https_port # 443 THEN https_port
              ELSE IF ~ssl /\ http_port # 80 THEN https_port
              ELSE NoPort]

\* 'HTTPS port:' is asked when SSL is wanted
httpsPortIf(s, ssl, in) ==
    IF ssl.ret = "true"
    THEN promptForPort(s, ssl.c, in, "HTTPS port:", DefaultHttpsPort(in),
                       in.httpsPort)
    ELSE [ret |-> "true", val |-> DefaultHttpsPort(in), c |-> ssl.c]

\* the questions of createConfiguration the address depends on, in their
\* order: 'Set up SSL?', 'HTTPS port:', 'HTTP port:', 'Install GitLab?',
\* 'GitLab domain names:'; `val` is what the config object holds after them
gitlabQuestions(s, c, in) ==
    Ask(confirm(s, c, in, "Set up SSL?", Bool(pub(in)), in.ssl), LAMBDA ssl :
    Ask(httpsPortIf(s, ssl, in), LAMBDA https :
    Ask(promptForPort(s, https.c, in, "HTTP port:", DefaultHttpPort(in),
                      in.httpPort), LAMBDA http :
    Ask(confirm(s, http.c, in, "Install GitLab?", "false", in.gitlab),
        LAMBDA gitlab :
    IF gitlab.ret # "true"
    THEN [ret |-> "true", c |-> gitlab.c,
          val |-> [gitlab |-> FALSE, ssl |-> ssl.ret = "true",
                   https_port |-> https.val, http_port |-> http.val]]
    ELSE Ask(promptForDomains(gitlab.c, in, "GitLab domain names:", <<>>,
                              in.gitlabDomains), LAMBDA names :
         [ret |-> "true", c |-> names.c,
          val |-> [gitlab |-> TRUE, ssl |-> ssl.ret = "true",
                   https_port |-> https.val, http_port |-> http.val,
                   gitlab_external_url |->
                       gitlabExternalUrl(ssl.ret = "true", https.val,
                                         http.val, names.list[1])]])))))

\* lines typed at the port questions
PortAnswers == {<<AnsEnter>>, <<<<"80">>>>, <<<<"443">>>>, <<<<"8080">>>>}

\* the answers the address depends on
GitlabIn ==
    {[DefaultIn EXCEPT !.dev = dev, !.public = p, !.ssl = <<s>>,
                       !.httpsPort = hs, !.httpPort = h, !.gitlab = <<g>>,
                       !.gitlabDomains = <<DomainA>>] :
        p \in BOOLEAN, s \in {AnsEnter, AnsY, AnsN}, hs \in PortAnswers,
        h \in PortAnswers, g \in {AnsY, AnsN}}

\* createConfiguration of part_002, from 'Set up SSL?' to the address of
\* GitLab
GitlabAddress ==
    /\ last = NoProc
    /\ script = "p2"
    /\ \E in \in GitlabIn :
          Answered("createConfiguration", in, NoPort, <<>>,
                   gitlabQuestions(script, Context, in))

NextPrompts ==
    \/ Confirm
    \/ PromptForPort
    \/ GitlabAddress
    \/ Exit

Prompts == Init /\ [][NextPrompts]_vars

-----------------------------------------------------------------------------
(* C21: what interactive confirm makes of the lines typed *)

\* the line is empty once the blanks around it are gone
Blank(line) == trim(line) = <<>>

\* the line begins with y or Y
Affirms(line) == ~Blank(line) /\ trim(line)[1] \in {"y", "Y"}

\* the line begins with n or N
Denies(line) == ~Blank(line) /\ trim(line)[1] \in {"n", "N"}

\* confirm was called without --yes and has returned
ConfirmReturned == Did("confirm") /\ ~last.in.yes

\* the lines confirm read before the one it returned after
ReadBefore == 1..(Len(last.log) - 1)

\* the line confirm returned after
Decisive == last.answers[Len(last.log)]

\* C21 as stated: interactive confirm returns its default on an empty answer,
\* true on an answer beginning with y or Y, false on one beginning with n or
\* N, asks again on any other answer (and on no other), and never returns an
\* undefined value
C21_ConfirmReturnsOnEmptyYesNo ==
    ConfirmReturned =>
        /\ Len(last.log) \in 1..Len(last.answers)
        /\ \A k \in 1..Len(last.log) : AskedAt(k, "Go on?")
        /\ \A k \in ReadBefore :
              ~(Blank(last.answers[k]) \/ Affirms(last.answers[k])
                   \/ Denies(last.answers[k]))
        /\ Blank(Decisive) \/ Affirms(Decisive) \/ Denies(Decisive)
        /\ (Blank(Decisive) /\ last.def # "undefined") => last.ret = last.def
        /\ Affirms(Decisive) => last.ret = "true"
        /\ Denies(Decisive) => last.ret = "false"
        /\ last.ret \in {"true", "false"}

\* the same holds of every call that passes a default, and of every call of
\* index.js and part_001, where a default not passed is true
C21_ConfirmWithDefault ==
    (ConfirmReturned /\ (last.def # "undefined" \/ script \in {"index", "p1"}))
        => /\ C21_ConfirmReturnsOnEmptyYesNo
           /\ (Blank(Decisive) /\ last.def = "undefined") => last.ret = "true"

\* part_004, default not passed: the enter key was pressed, the question was
\* asked again, and confirm returned after a later line only
C21_EnterAskedAgain ==
    /\ ConfirmReturned
    /\ script = "p4"
    /\ last.def = "undefined"
    /\ Len(last.log) = 2
    /\ Blank(last.answers[1])
    /\ Affirms(last.answers[2])
    /\ last.ret = "true"

\* an answer that is neither empty nor yes nor no was asked about again
C21_OtherAskedAgain ==
    /\ ConfirmReturned
    /\ Len(last.log) = 2
    /\ last.answers[1] = <<"o", "y">>
    /\ Denies(last.answers[2])
    /\ last.ret = "false"

-----------------------------------------------------------------------------
(* C22: the port promptForPort hands back *)

PortReturned == Did("promptForPort")

\* netstat was run, or could have been run, and lists the port as listening
ListedAsListening(port) ==
    "netstat" \notin last.in.fails /\ port \in last.in.listening

\* the line is a number and nothing else
Numeric(line) == Len(trim(line)) = 1 /\ trim(line)[1] \in DOMAIN Numerals

\* the port the line stands for: the default for an empty line
PortOf(line) ==
    IF trim(line) = <<>> THEN last.def ELSE Numerals[trim(line)[1]]

\* the line names a port promptForPort may hand back
Acceptable(line) ==
    /\ trim(line) = <<>> \/ Numeric(line)
    /\ ~ListedAsListening(PortOf(line))

\* the questions asked
PortQuestions == {k \in Steps : AskedAt(k, "HTTP port:")}

\* C22 as stated: promptForPort returns only an integer port that netstat
\* does not list as listening; an answer that is not a number or names a
\* port in use is asked about again; the default is returned only if free
C22_ReturnsFreePort ==
    PortReturned =>
        /\ last.val \in Nat
        /\ ~ListedAsListening(last.val)
        /\ ~last.in.yes =>
              LET n == Cardinality(PortQuestions) IN
              /\ n \in 1..Len(last.answers)
              /\ \A k \in 1..(n - 1) : ~Acceptable(last.answers[k])
              /\ Acceptable(last.answers[n])
              /\ last.val = PortOf(last.answers[n])

\* what holds of part_001 without --yes: the port handed back is a number
\* netstat does not list as listening, it is the default or the number the
\* last line begins with, and every line read before was empty with the
\* default in use, began with no number, or named a port in use
C22_InteractiveFreePort ==
    (PortReturned /\ script = "p1" /\ ~last.in.yes) =>
        LET n == Cardinality(PortQuestions)
            Read(k) == IF trim(last.answers[k]) = <<>> THEN last.def
                       ELSE parseInt(trim(last.answers[k]))
        IN  /\ last.val \in Nat
            /\ ~ListedAsListening(last.val)
            /\ n \in 1..Len(last.answers)
            /\ last.val = Read(n)
            /\ \A k \in 1..(n - 1) :
                  Read(k) = NoPort \/ ListedAsListening(Read(k))

\* part_001 with --yes: the default port is handed back although netstat
\* would list it as listening; netstat is not run
C22_YesReturnsBusyDefault ==
    /\ PortReturned
    /\ script = "p1"
    /\ last.in.yes
    /\ ListedAsListening(last.def)
    /\ last.val = last.def
    /\ \A k \in Steps : last.log[k][1] = "print"

\* part_004 and part_002: a port typed is handed back although in use
C22_LaterScriptsReturnBusyPort ==
    /\ PortReturned
    /\ script \in {"p4", "p2"}
    /\ ~last.in.yes
    /\ ListedAsListening(last.val)

\* part_001: a line that begins with a number and goes on with letters is
\* taken for the number
C22_NumberWithLettersAccepted ==
    /\ PortReturned
    /\ script = "p1"
    /\ ~last.in.yes
    /\ last.answers[1] = <<"80", "abc">>
    /\ Cardinality(PortQuestions) = 1
    /\ last.val = 80

\* part_001: a port in use was typed, the question was asked again, and a
\* free port was handed back
C22_BusyPortAskedAgain ==
    /\ PortReturned
    /\ script = "p1"
    /\ ~last.in.yes
    /\ Cardinality(PortQuestions) = 2
    /\ ListedAsListening(PortOf(last.answers[1]))
    /\ Numeric(last.answers[1])
    /\ last.val = PortOf(last.answers[2])

-----------------------------------------------------------------------------
(* C23: how installDocker installs Docker *)

\* the package installation of each package manager, in the order in which
\* installDocker looks for them
DockerPackage ==
    <<[tool |-> "apt-get", cmd |-> "apt-get -y install docker.io"],
      [tool |-> "pacman", cmd |-> "pacman --noconfirm -S docker"],
      [tool |-> "yum", cmd |-> "yum -y install docker"],
      [tool |-> "urpmi", cmd |-> "urpmi --auto docker"]>>

\* a package manager was run to install Docker
DockerPackageAt(k) ==
    \E i \in 1..Len(DockerPackage) : RanProgramAt(k, DockerPackage[i].cmd)

\* installDocker was called: it looked for docker
InstallDockerCalled == Did("install") /\ \E k \in Steps : LookedForAt(k, "docker")

\* the lines read at the question of installDocker
DockerQuestions ==
    {k \in Steps : AskedAt(k, "Do you want to install Docker?")}

\* the user said no: the last line read at the question begins with n
DockerDeclined ==
    /\ ~last.in.yes
    /\ DockerQuestions # {}
    /\ Denies(last.in.confirmDocker[Cardinality(DockerQuestions)])

\* the user was asked and did not say no, or --yes answered for the user
DockerConfirmed ==
    \/ last.in.yes /\ \E k \in Steps :
                         PrintedAt(k, "Do you want to install Docker?")
    \/ DockerQuestions # {} /\ ~DockerDeclined

\* the first package manager there is, in the order of DockerPackage
FirstAvailable(i) ==
    /\ DockerPackage[i].tool \in last.in.pkgs
    /\ \A j \in 1..(i - 1) : DockerPackage[j].tool \notin last.in.pkgs

C23_DeclinedNothingInstalled ==
    /\ InstallDockerCalled
    /\ DockerDeclined
    /\ last.in.pkgs # {}
    /\ ~dockerInstalled
    /\ last.exit = ExitFail

\* the package installation failed: the service was not enabled
C23_PackageFailedServiceNotEnabled ==
    /\ Did("install")
    /\ \E k \in Steps : DockerPackageAt(k) /\ RunFailedAt(k)
    /\ \A k \in Steps : ~RanProgramAt(k, "systemctl enable docker")
    /\ ~dockerInstalled

\* a system other than Linux without Docker: nothing was asked or installed
C23_NotLinuxNothingInstalled ==
    /\ InstallDockerCalled
    /\ os # "Linux"
    /\ ~last.before.dockerInstalled
    /\ DockerQuestions = {}
    /\ last.exit = ExitFail

-----------------------------------------------------------------------------
(* C24: no domain name is listed twice *)

NoDuplicates(names) ==
    \A i, j \in 1..Len(names) : i # j => names[i] # names[j]

\* C24 as stated: after any sequence of install, add and remove the registry
\* never lists the same domain name twice
C24_RegistryNamesOnce == NoDuplicates(registry.domains)

\* install of part_002 has written a registry that lists a name twice
C24_InstallListedTwice ==
    /\ Did("install")
    /\ script = "p2"
    /\ \E k \in Steps : WroteAt(k, CertbotJson)
    /\ NoDuplicates(last.before.registry.domains)
    /\ ~NoDuplicates(registry.domains)

\* add never writes a name twice, and remove writes none twice that was
\* not listed twice before
C24_AddRemoveWriteNoDuplicates ==
    /\ (Did("add") /\ \E k \in Steps : WroteAt(k, CertbotJson))
          => NoDuplicates(registry.domains)
    /\ (Did("remove") /\ NoDuplicates(last.before.registry.domains))
          => NoDuplicates(registry.domains)

\* remove has rewritten a registry that lists a name twice, and it still does
C24_RemoveKeptDuplicate ==
    /\ Did("remove")
    /\ \E k \in Steps : WroteAt(k, CertbotJson)
    /\ ~NoDuplicates(registry.domains)

-----------------------------------------------------------------------------
(* C25: the certificate commands without a registry *)

\* a certificate command of part_002, the one script that has them
Cert(command) == Did(command) /\ script = "p2"

\* loadCertbotConfig finds no certbot.json it can read
NoReadableRegistry == ~last.before.registry.exists \/ last.in.config # ""

\* certbot was started
CertbotAt(k) == RanProgramAt(k, CertonlyCmd) \/ RanProgramAt(k, RenewCmd)

\* the answer given at 'Receive notification e-mails from EFF?'
NotificationChosen == ~Denies(Head(last.in.notify))

\* the registry add has to create: the given names, the address typed at
\* 'Contact e-mail:' and the answer given at 'Receive notification e-mails
\* from EFF?', written after both were asked for
AddCreatedRegistry ==
    /\ registry.exists
    /\ \E k \in Steps : WroteAt(k, CertbotJson)
    /\ registry.domains = GivenNames
    /\ ~last.in.yes =>
          /\ registry.email = trim(last.in.email)
          /\ registry.notification = NotificationChosen
          /\ \E i, j, k \in Steps :
                /\ i < j /\ j < k
                /\ AskedAt(i, "Contact e-mail:")
                /\ AskedAt(j, "Receive notification e-mails from EFF?")
                /\ WroteAt(k, CertbotJson)

\* remove and request without a readable registry fail, create no registry
\* and do not start certbot
RemoveRequestRefused ==
    ((Cert("remove") \/ Cert("request")) /\ NoReadableRegistry) =>
        /\ last.exit = ExitFail
        /\ registry = last.before.registry
        /\ files = last.before.files
        /\ \A k \in Steps : ~CertbotAt(k) /\ ~WroteAt(k, CertbotJson)

\* C25 as stated: without a readable registry, remove and request fail,
\* create no registry and do not start certbot, whereas add (run by root)
\* creates the registry with the given domain names, the contact e-mail and
\* the notification choice it asks for
C25_WithoutRegistry ==
    /\ RemoveRequestRefused
    /\ (Cert("add") /\ NoReadableRegistry /\ last.in.root)
          => AddCreatedRegistry

\* the same where the configuration folder exists
C25_WithoutRegistryInFolder ==
    /\ RemoveRequestRefused
    /\ ( /\ Cert("add") /\ NoReadableRegistry /\ last.in.root
         /\ \E f \in FileNames : last.before.files[f] # NoFile )
          => AddCreatedRegistry

\* `trambar add a.org` where neither a registry nor the configuration
\* folder exists: both questions were asked, writing threw, no registry
C25_AddThrewWithoutFolder ==
    /\ Cert("add")
    /\ last.in.root
    /\ ~last.before.registry.exists
    /\ \E k \in Steps : AskedAt(k, "Contact e-mail:")
    /\ last.ret = "throw"
    /\ last.exit = ExitUncaught
    /\ ~registry.exists

\* `trambar add a.org` on a machine without a registry, no notification
\* wanted: the registry holds a.org, the address typed and the choice
C25_AddCreatedRegistry ==
    /\ Cert("add")
    /\ ~last.before.registry.exists
    /\ registry.exists
    /\ registry.domains = <<DomainA>>
    /\ registry.email = <<"me@a.org">>
    /\ ~registry.notification

\* `trambar remove a.org` without a registry failed and created none
C25_RemoveWithoutRegistryFailed ==
    /\ Cert("remove")
    /\ last.in.root
    /\ ~last.before.registry.exists
    /\ ~registry.exists
    /\ last.exit = ExitFail

\* `trambar request` without a registry failed without starting certbot
C25_RequestWithoutRegistryFailed ==
    /\ Cert("request")
    /\ last.in.root
    /\ ~last.before.registry.exists
    /\ last.exit = ExitFail
    /\ \A k \in Steps : ~CertbotAt(k)

-----------------------------------------------------------------------------
(* The certificate commands of the second script of part_002 *)

\* src/unnamed/part_002 holds two scripts; the second one (lines 1364-2540)
\* is an older generation that knows add, list and remove
Second == "p2_2"

\* what separates the names in a line typed
Separator == ","

\* _.filter(_.split(text, /[\s,;]+/)): the names of the line
splitNames(text) == LET IsName(x) == x # Separator IN SelectSeq(text, IsName)

\* if (_.isEmpty(args)) { names = split(promptForText(question)) } else
\* { names = args }; with --yes promptForText returns undefined, which
\* splits into no name
namesGiven(c, in, question) ==
    IF in.args # <<>> THEN [ret |-> "true", list |-> in.args, c |-> c]
    ELSE IF in.yes
    THEN [ret |-> "true", list |-> <<>>, c |-> Log(c, <<"print", question>>)]
    ELSE IF in.domains = <<>>
    THEN [ret |-> "hang", list |-> <<>>, c |-> c]
    ELSE [ret |-> "true", list |-> splitNames(in.domains),
          c |-> Log(c, <<"ask", question>>)]

\* FS.writeFileSync(configFolder + '/certbot.json', text)
saveCertbotConfig(c, in, config) == writeCertbotConfig(c, in, config)

\* findNginx() lists the containers; config.domains.each(...) then calls a
\* method arrays do not have: a TypeError, before docker is run
requestCertbotCerts(c, in, config) ==
    With(getProcesses_p2(c, in), LAMBDA ps :
    Return("throw", Log(ps.c, <<"throw", "TypeError">>)))

\* checkRootAccess, promptForText and confirm are those of part_004
addDomainName(c, in) ==
    Then(checkRootAccess("p4", c, in), LAMBDA c1 :
    Ask(namesGiven(c1, in, "Domain(s) to add:"), LAMBDA names :
    IF names.list = <<>> THEN Return("false", names.c) ELSE
    With(loadCertbotConfig(names.c, in), LAMBDA loaded :
    Ask(orNewConfig("p4", names.c, in, loaded), LAMBDA contact :
    With([exists |-> TRUE, domains |-> union(loaded.domains, names.list),
          email |-> contact.email, notification |-> contact.notification],
         LAMBDA config :
    Do(saveCertbotConfig(contact.c, in, config), LAMBDA c2 :
    Do(requestCertbotCerts(c2, in, config), LAMBDA c3 :
    Return("true", c3))))))))

removeDomainName(c, in) ==
    Then(checkRootAccess("p4", c, in), LAMBDA c1 :
    With(loadCertbotConfig(c1, in), LAMBDA loaded :
    IF ~loaded.exists THEN Return("false", c1) ELSE
    Ask(namesGiven(c1, in, "Domain(s) to remove:"), LAMBDA names :
    IF names.list = <<>> THEN Return("false", names.c) ELSE
    With([loaded EXCEPT !.domains = difference(@, names.list)], LAMBDA config :
    Do(saveCertbotConfig(names.c, in, config), LAMBDA c2 :
    Do(requestCertbotCerts(c2, in, config), LAMBDA c3 :
    Return("true", c3)))))))

\* the arguments of add and remove and what is typed
SecondIn ==
    {[DefaultIn EXCEPT !.args = a] : a \in DomainArgs}
    \cup {[DefaultIn EXCEPT !.domains = <<DomainB>>],
          [DefaultIn EXCEPT !.domains = <<Separator>>],
          [DefaultIn EXCEPT !.args = <<DomainA>>, !.notify = <<AnsN>>],
          [DefaultIn EXCEPT !.yes = TRUE],
          [DefaultIn EXCEPT !.root = FALSE, !.args = <<DomainA>>]}

\* a Linux machine without Trambar, or one whose configuration folder holds
\* the files install writes; install of this script writes no registry
InitSecond ==
    /\ script = Second
    /\ os = "Linux"
    /\ dev = FALSE
    /\ \E c \in {Fresh(FALSE),
                 install("p4", Fresh(FALSE),
                         [DefaultIn EXCEPT !.pkgs = {"apt-get"}]).c} :
          /\ files = c.files
          /\ dockerInstalled = c.dockerInstalled
          /\ composeInstalled = c.composeInstalled
          /\ images = c.images
          /\ containers = c.containers
          /\ registry = c.registry
          /\ certTime = c.certTime
    /\ runs = 0
    /\ last = NoProc

\* one invocation of the second script
InvokeSecond(command, in, r) ==
    /\ runs' = runs + 1
    /\ Finish(command, in, r)
    /\ UNCHANGED <<script, os, dev>>

AddDomainName ==
    Ready /\ \E in \in SecondIn :
                InvokeSecond("add", in, addDomainName(Context, in))

RemoveDomainName ==
    Ready /\ \E in \in SecondIn :
                InvokeSecond("remove", in, removeDomainName(Context, in))

NextSecond ==
    \/ AddDomainName
    \/ RemoveDomainName
    \/ Exit

SecondScript == InitSecond /\ [][NextSecond]_vars

-----------------------------------------------------------------------------
(* C26: the registry is written before the certificate is requested *)

\* add or remove of a script that has them has written the registry
WroteRegistry(command) ==
    /\ Did(command)
    /\ script \in {"p2", Second}
    /\ \E k \in Steps : WroteAt(k, CertbotJson)

\* the arguments certbot certonly was given
RequestArgsAt(k) == last.log[k][1] = "args"

\* certbot certonly was started for the names and the e-mail address of the
\* registry as it is now, after the registry was written
RequestedForRegistry ==
    \E w, a, r \in Steps :
       /\ w < a /\ a < r
       /\ WroteAt(w, CertbotJson)
       /\ RequestArgsAt(a)
       /\ last.log[a][2].d = registry.domains
       /\ last.log[a][2].email = registry.email
       /\ RanProgramAt(r, CertonlyCmd)
       /\ \A j \in Steps : RequestArgsAt(j) => j = a

\* C26: add and remove write the updated registry before they start
\* certbot; the request names the domains of the written registry, one -d
\* each, with its e-mail address; the command runs to its end and the
\* registry stays updated whether or not the request succeeds
C26_WrittenThenRequested ==
    /\ WroteRegistry("add") =>
          /\ RequestedForRegistry
          /\ SeqToSet(registry.domains) =
                SeqToSet(PreviousList) \cup SeqToSet(GivenNames)
          /\ last.exit = ExitOK
    /\ WroteRegistry("remove") =>
          /\ RequestedForRegistry
          /\ SeqToSet(registry.domains) =
                SeqToSet(PreviousList) \ SeqToSet(GivenNames)
          /\ last.exit = ExitOK

\* the second script of part_002: add has written the registry and ended
\* with an exception before certbot was started
C26_WrittenThenThrew ==
    /\ WroteRegistry("add")
    /\ script = Second
    /\ registry.domains = <<DomainA>>
    /\ last.ret = "throw"
    /\ last.exit = ExitUncaught
    /\ \A k \in Steps : ~RequestArgsAt(k) /\ last.log[k][1] # "run"

\* the first script of part_002: the request failed, add ended with status
\* 0 and the registry holds the name added
C26_RequestFailedRegistryUpdated ==
    /\ WroteRegistry("add")
    /\ script = "p2"
    /\ \E k \in Steps : RanProgramAt(k, CertonlyCmd) /\ RunFailedAt(k)
    /\ registry.domains # PreviousList
    /\ last.exit = ExitOK

-----------------------------------------------------------------------------
(* Renewing on a machine that has a certificate *)

\* the machine after install of part_002 with certbot chosen for a.org and
\* the certificate acquired
WithCertificate ==
    install("p2", Fresh(FALSE),
            [DefaultIn EXCEPT !.pkgs = {"apt-get"}, !.ssl = <<AnsY>>,
                              !.useCertbot = <<AnsY>>,
                              !.domains = <<DomainA>>]).c

\* the same machine after `trambar start`
Started(c) == createContainers(c, DefaultIn).c

\* part_002 on Linux, installed with or without a certificate, the
\* containers started or not
InitRenewal ==
    /\ script = "p2"
    /\ os = "Linux"
    /\ dev = FALSE
    /\ \E c \in {WithCertificate, Started(WithCertificate),
                 Started(Installed(FALSE))} :
          /\ files = c.files
          /\ dockerInstalled = c.dockerInstalled
          /\ composeInstalled = c.composeInstalled
          /\ images = c.images
          /\ containers = c.containers
          /\ registry = c.registry
          /\ certTime = c.certTime
    /\ runs = 0
    /\ last = NoProc

NextRenewal ==
    \/ Renew
    \/ Start
    \/ Stop
    \/ Exit

Renewal == InitRenewal /\ [][NextRenewal]_vars

-----------------------------------------------------------------------------
(* C27: when renew reloads nginx *)

\* nginx was told to reload its configuration
ReloadAt(k) == RanProgramAt(k, "nginx reload")

\* a container of the deployment with nginx in its name is running
NginxRunning ==
    \E p \in last.before.containers :
       p.Names[1] = prefixOf(last.in) /\ p.Names[2] = "nginx"

\* C27: renew reloads nginx only after certbot renew succeeded and the
\* newest modification time under the certificate folder has increased
\* during that run; it reloads at most once, and not at all when no nginx
\* container of the deployment is running
C27_ReloadOnlyAfterRenewal ==
    (Did("renew") /\ script = "p2") =>
        \A k \in Steps : ReloadAt(k) =>
           /\ \E j \in 1..(k - 1) : RanProgramAt(j, RenewCmd) /\ ~RunFailedAt(j)
           /\ last.before.certTime > 0
           /\ certTime > last.before.certTime
           /\ NginxRunning
           /\ \A j \in Steps : ReloadAt(j) => j = k

\* a certificate was renewed while nginx was running: nginx was reloaded
C27_RenewedReloaded ==
    /\ Did("renew")
    /\ certTime > last.before.certTime
    /\ NginxRunning
    /\ \E k \in Steps : ReloadAt(k) /\ ~RunFailedAt(k)
    /\ last.exit = ExitOK

\* nothing was renewed: certbot renew succeeded, nginx was running and was
\* not reloaded
C27_NothingRenewedNoReload ==
    /\ Did("renew")
    /\ NginxRunning
    /\ \E k \in Steps : RanProgramAt(k, RenewCmd) /\ ~RunFailedAt(k)
    /\ certTime = last.before.certTime
    /\ \A k \in Steps : ~ReloadAt(k)

\* a certificate was renewed while no nginx container of the deployment
\* was running: no reload
C27_RenewedWithoutNginx ==
    /\ Did("renew")
    /\ certTime > last.before.certTime
    /\ ~NginxRunning
    /\ \A k \in Steps : ~ReloadAt(k)

\* certbot renew failed: no reload
C27_RenewFailedNoReload ==
    /\ Did("renew")
    /\ NginxRunning
    /\ \E k \in Steps : RanProgramAt(k, RenewCmd) /\ RunFailedAt(k)
    /\ \A k \in Steps : ~ReloadAt(k)

-----------------------------------------------------------------------------
(* C28: the address of GitLab *)

\* createConfiguration has set gitlab_external_url
AddressSet == Did("createConfiguration") /\ last.val.gitlab

\* the port chosen for the protocol in use
ChosenPort ==
    IF last.val.ssl THEN last.val.https_port ELSE last.val.http_port

\* the port a browser takes when the address names none
ProtocolDefault == IF last.val.ssl THEN 443 ELSE 80

\* C28 as stated: the address uses https and the HTTPS port chosen when SSL
\* is enabled, http and the HTTP port chosen otherwise, and names the port
\* exactly when it is not the default of the protocol
C28_AddressNamesChosenPort ==
    AddressSet =>
        /\ last.val.gitlab_external_url.protocol =
              IF last.val.ssl THEN "https" ELSE "http"
        /\ last.val.gitlab_external_url.domain = last.in.gitlabDomains[1]
        /\ last.val.gitlab_external_url.port =
              IF ChosenPort # ProtocolDefault THEN ChosenPort ELSE NoPort

\* the same with SSL enabled, or with HTTP on port 80
C28_AddressWithSslOrPort80 ==
    (AddressSet /\ (last.val.ssl \/ last.val.http_port = 80)) =>
        C28_AddressNamesChosenPort

\* without SSL, every answer the enter key but yes to GitLab, on a server
\* that is not public: HTTP is on port 8080 and the address names port 8443
C28_HttpAddressNamesHttpsPort ==
    /\ AddressSet
    /\ ~last.val.ssl
    /\ last.val.http_port = 8080
    /\ last.val.gitlab_external_url.protocol = "http"
    /\ last.val.gitlab_external_url.port = 8443

\* with SSL on port 8443 the address is https and names port 8443
C28_HttpsAddressNamesPort ==
    /\ AddressSet
    /\ last.val.ssl
    /\ last.val.https_port = 8443
    /\ last.val.gitlab_external_url.protocol = "https"
    /\ last.val.gitlab_external_url.port = 8443

-----------------------------------------------------------------------------
(* C29: the images an update supersedes *)

\* docker was asked to remove image `id`
RmiOfAt(k, id) == last.log[k][1] = "rmi" /\ last.log[k][2] = id

RmiFailedAt(k) == last.log[k][1] = "rmi" /\ last.log[k][3] = "fail"

\* the pull of this update ended well and fetched a newer trambar image
PulledNewer ==
    /\ Did("update")
    /\ \E k \in Steps : PulledAt(k) /\ ~RunFailedAt(k)
    /\ last.in.newer
    /\ Current(last.before) # {}
    /\ FreeIDs(last.before) # {}

\* the images that lost their tag to the newer one
SupersededIDs == IF PulledNewer THEN {i.ID : i \in Current(last.before)} ELSE {}

\* the images without a tag once the pull is over
UntaggedIDs ==
    {i.ID : i \in {j \in last.before.images : j.Tag = NoneTag}}
        \cup SupersededIDs

PresentIDs == {i.ID : i \in images}

\* the removal of every superseded image was asked of docker, and the image
\* is gone unless docker refused
SupersededRemoved ==
    \A id \in SupersededIDs :
        /\ \E k \in Steps : RmiOfAt(k, id)
        /\ id \in PresentIDs => \E k \in Steps : RmiOfAt(k, id) /\ RmiFailedAt(k)

\* an image that carries a repository name and a tag is neither asked to be
\* removed nor missing afterwards
TaggedKept ==
    /\ \A k \in Steps : last.log[k][1] = "rmi" => last.log[k][2] \in UntaggedIDs
    /\ \A i \in last.before.images : i.ID \notin UntaggedIDs => i \in images

\* a removal docker refused leaves update successful
RemovalFailureIgnored ==
    (\E k \in Steps : RmiFailedAt(k)) => last.ret = "true" /\ last.exit = ExitOK

\* C29: after update has pulled a newer version of a trambar image the
\* superseded image the pull left untagged is removed; no image that still
\* carries a repository name and a tag is removed; and a failure to remove a
\* superseded image does not make update fail
C29_SupersededImagesRemoved ==
    Did("update") =>
        /\ SupersededRemoved
        /\ TaggedKept
        /\ RemovalFailureIgnored

\* the superseded image is listed with its repository name and '<none>' as
\* its tag
KeptRepositoryName ==
    \A id \in SupersededIDs :
        \E i \in last.before.images :
            /\ i.ID = id
            /\ [i EXCEPT !.Tag = NoneTag] \in images
                  \/ \E k \in Steps : RmiOfAt(k, id)

\* what holds of every script: tagged images stay and a refused removal is
\* ignored; in the scripts that have removeUntaggedImages the superseded
\* image is removed when update got as far as that and `docker images` still
\* lists the image under its repository name
C29_TaggedKeptAndFailureIgnored ==
    Did("update") =>
        /\ TaggedKept
        /\ RemovalFailureIgnored
        /\ (script # "index" /\ last.exit = ExitOK /\ last.in.keepRepo)
              => SupersededRemoved

\* update of index.js pulled a newer image and ended well; the superseded
\* image is still there and docker was never asked to remove it
C29_IndexKeptSuperseded ==
    /\ PulledNewer
    /\ script = "index"
    /\ last.exit = ExitOK
    /\ SupersededIDs # {}
    /\ SupersededIDs \subseteq PresentIDs
    /\ \A k \in Steps : last.log[k][1] # "rmi"

\* a later script removed the superseded image
C29_LaterScriptRemovedSuperseded ==
    /\ PulledNewer
    /\ script # "index"
    /\ last.exit = ExitOK
    /\ SupersededIDs # {}
    /\ SupersededIDs \cap PresentIDs = {}

\* docker refused the removal and update ended well
C29_RemovalRefusedUpdateSucceeded ==
    /\ PulledNewer
    /\ \E k \in Steps : RmiFailedAt(k) /\ last.log[k][2] \in SupersededIDs
    /\ SupersededIDs \subseteq PresentIDs
    /\ last.exit = ExitOK

\* a later script whose `docker-compose up` failed: update ended with an
\* error before removeUntaggedImages
C29_UpFailedSupersededKept ==
    /\ PulledNewer
    /\ script # "index"
    /\ \E k \in Steps : UpAt(k) /\ RunFailedAt(k)
    /\ SupersededIDs \subseteq PresentIDs
    /\ \A k \in Steps : last.log[k][1] # "rmi"

\* a later script, the superseded image listed as '<none>' '<none>': it is
\* not among the images removeUntaggedImages looks at
C29_NamelessSupersededKept ==
    /\ PulledNewer
    /\ script # "index"
    /\ ~last.in.keepRepo
    /\ last.exit = ExitOK
    /\ SupersededIDs \subseteq PresentIDs
    /\ \A k \in Steps : last.log[k][1] # "rmi"

-----------------------------------------------------------------------------
====
